---- MODULE Spec2Model ----
(***************************************************************************)
(* pycontainer-build: the layer cache (cache.py), the Registry v2 client   *)
(* (registry_client.py) and the image builder (builder.py), modelled as a  *)
(* state machine.                                                          *)
(*                                                                         *)
(* Blob contents are records; a SHA-256 digest is modelled as the          *)
(* collision-free wrapper Sha256(content).  A directory of blobs is a set  *)
(* of [name, data] records with at most one record per name.               *)
(***************************************************************************)
EXTENDS Naturals, Sequences, FiniteSets, TLC

VARIABLES
    cache,      \* the LayerCache object and its directory (cache.py)
    now,        \* the wall clock read by time.time()
    cacheOps,   \* number of LayerCache calls made so far
    lastCall,   \* the latest LayerCache call: arguments, result, index before eviction
    config,     \* the BuildConfig the ImageBuilder was constructed with
    inst,       \* the ImageBuilder's attributes manifest_digest, config_digest, layers
    out,        \* the output directory: blobs/sha256, index.json, sbom.json
    pc,         \* where the running build() or push() stands, with its locals
    client,     \* the RegistryClient of the running operation
    wire,       \* the HTTP requests of the current step of the operation, with the answers
    acked,      \* the digests the registry has acknowledged during the running push()
    outcome,    \* how the last operation ended
    built,      \* whether a build() of this instance has returned normally without dry_run
    ops,        \* number of build() and push() calls made so far
    registry    \* what a registry that keeps what it accepts holds for the push target

cacheVars == <<cache, now, cacheOps, lastCall>>

builderVars == <<config, inst, out, pc, client, wire, acked, outcome, built, ops, registry>>

vars == <<cache, now, cacheOps, lastCall, config, inst, out, pc, client, wire, acked,
          outcome, built, ops, registry>>

-----------------------------------------------------------------------------
(* Bounds of the model *)

MaxClock == 4

MaxCacheOps == 4

\* build() and push() calls on one ImageBuilder
MaxOps == 2

\* layers of the base image
MaxBaseLayers == 1

\* tokens of an image reference handed to parse_image_reference
MaxRefLen == 5

-----------------------------------------------------------------------------
(* Contents, digests, blob directories *)

Sha256(data) == [alg |-> "sha256", of |-> data]

\* b"..." of a given length; id tells apart contents of the same length
Bytes(i, n) == [kind |-> "bytes", id |-> i, len |-> n]

Size(data) == IF "len" \in DOMAIN data THEN data.len ELSE 1

Names(dir) == {f.name : f \in dir}

Exists(dir, name) == name \in Names(dir)

ReadBytes(dir, name) == (CHOOSE f \in dir : f.name = name).data

\* Path.write_bytes / shutil.copy2 onto a path: replaces what the path held
WriteBytes(dir, name, data) ==
    {f \in dir : f.name # name} \cup {[name |-> name, data |-> data]}

\* Path.unlink
Unlink(dir, name) == {f \in dir : f.name # name}

-----------------------------------------------------------------------------
(* cache.py: LayerCache *)

\* Relative paths of the context tree, in the order of str comparison
RelPaths == <<"a", "a1", "b">>

RelRank(rel) == CHOOSE i \in 1..Len(RelPaths) : RelPaths[i] = rel

\* One (abs_path, rel_path) pair with what abs_path.stat() reports
FileStat(rel, size, mtime) == [rel |-> rel, size |-> size, mtime |-> mtime, exists |-> TRUE]

\* The file lists handed to the cache
FileLists ==
    { <<FileStat("a", 1, 1)>>,
      <<FileStat("b", 1, 1)>>,
      <<FileStat("b", 1, 1), FileStat("a", 1, 1)>> }

RECURSIVE InsertByRel(_, _)
InsertByRel(sorted, f) ==
    IF sorted = <<>> THEN <<f>>
    ELSE IF RelRank(f.rel) < RelRank(Head(sorted).rel)
         THEN <<f>> \o sorted
         ELSE <<Head(sorted)>> \o InsertByRel(Tail(sorted), f)

\* sorted(files, key=lambda x: x[1].as_posix()), a stable sort
RECURSIVE SortByRel(_)
SortByRel(files) ==
    IF files = <<>> THEN <<>>
    ELSE InsertByRel(SortByRel(SubSeq(files, 1, Len(files) - 1)), files[Len(files)])

RECURSIVE HashInput(_)
HashInput(files) ==
    IF files = <<>> THEN ""
    ELSE LET f == Head(files) IN
         f.rel \o (IF f.exists THEN ToString(f.size) \o ToString(f.mtime) ELSE "")
               \o HashInput(Tail(files))

compute_files_digest(files) == [alg |-> "sha256", text |-> HashInput(SortByRel(files))]

RECURSIVE SumSizes(_)
SumSizes(index) ==
    IF index = <<>> THEN 0 ELSE Head(index).size + SumSizes(Tail(index))

Keys(index) == {index[i].key : i \in 1..Len(index)}

Entry(index, key) == index[CHOOSE i \in 1..Len(index) : index[i].key = key]

\* del self.index[key]
\* an index that keeps the entry
KeepKey(index, key) == index

DelKey(index, key) == SelectSeq(index, LAMBDA e : e.key # key)

\* an index that moves a key it is given again to the end
SetKeyAtEnd(index, entry) == Append(SelectSeq(index, LAMBDA e : e.key # entry.key), entry)

\* self.index[key]=entry: a dict keeps the position of a key it already holds
SetKey(index, entry) ==
    IF entry.key \in Keys(index)
    THEN [i \in 1..Len(index) |-> IF index[i].key = entry.key THEN entry ELSE index[i]]
    ELSE Append(index, entry)

RECURSIVE InsertByLastUsed(_, _)
InsertByLastUsed(sorted, e) ==
    IF sorted = <<>> THEN <<e>>
    ELSE IF e.last_used < Head(sorted).last_used
         THEN <<e>> \o sorted
         ELSE <<Head(sorted)>> \o InsertByLastUsed(Tail(sorted), e)

\* a cache that evicts in insertion order, oldest stored first
SortByInsertion(index) == index

\* sorted(self.index.items(), key=lambda x: x[1].last_used), a stable sort
RECURSIVE SortByLastUsed(_)
SortByLastUsed(index) ==
    IF index = <<>> THEN <<>>
    ELSE InsertByLastUsed(SortByLastUsed(SubSeq(index, 1, Len(index) - 1)), index[Len(index)])

\* total_size <= self.max_size_bytes * 0.8, in integers
AtMostEightyPercent(total, max) == 5 * total <= 4 * max

\* the for loop of _evict_if_needed
RECURSIVE EvictLoop(_, _, _)
EvictLoop(entries, total, c) ==
    IF entries = <<>> \/ AtMostEightyPercent(total, c.max_size_bytes) THEN c
    ELSE LET e == Head(entries) IN
         EvictLoop(Tail(entries), total - e.size,
                   [c EXCEPT !.blobs = Unlink(c.blobs, e.digest),
                             !.index = DelKey(c.index, e.key)])

\* {k: asdict(v) for k, v in self.index.items()} as json.dumps writes it:
\* an object with one member for a fingerprint, in the order of the dict
IndexJson(index) ==
    [i \in DOMAIN index |->
        [name |-> index[i].key,
         value |-> [digest |-> index[i].digest, size |-> index[i].size,
                    created |-> index[i].created, last_used |-> index[i].last_used,
                    source_files |-> index[i].source_files]]]

\* {k: CacheEntry(**v) for k, v in data.items()}
IndexOfJson(data) ==
    [i \in DOMAIN data |->
        [key |-> data[i].name, digest |-> data[i].value.digest,
         size |-> data[i].value.size, created |-> data[i].value.created,
         last_used |-> data[i].value.last_used,
         source_files |-> data[i].value.source_files]]

\* _save_index: index.json is written with the index in memory
save_index(c) == [c EXCEPT !.saved = IndexJson(c.index), !.index_file = TRUE]

\* _load_index: what a LayerCache opened on the directory starts from
load_index(c) == IF ~c.index_file THEN <<>> ELSE IndexOfJson(c.saved)

\* an eviction that does not write index.json when it is done
evict_unsaved(c) ==
    LET total == SumSizes(c.index) IN
    IF total <= c.max_size_bytes THEN c
    ELSE EvictLoop(SortByLastUsed(c.index), total, c)

evict_if_needed(c) ==
    LET total == SumSizes(c.index) IN
    IF total <= c.max_size_bytes THEN c
    ELSE save_index(EvictLoop(SortByLastUsed(c.index), total, c))

\* store_layer up to and including the first _save_index
StoreEntry(c, files, digest, data, t1, t2) ==
    LET blobs == IF Exists(c.blobs, digest) THEN c.blobs
                 ELSE WriteBytes(c.blobs, digest, data)
        entry == [key |-> compute_files_digest(files),
                  digest |-> digest,
                  size |-> Size(ReadBytes(blobs, digest)),
                  created |-> t1,
                  last_used |-> t2,
                  source_files |-> [i \in 1..Len(files) |-> files[i].rel]]
    IN save_index([c EXCEPT !.blobs = blobs, !.index = SetKey(c.index, entry)])

\* store_layer(files, digest, layer_path); data is what layer_path holds
store_layer(c, files, digest, data, t1, t2) ==
    IF ~c.enabled THEN c
    ELSE evict_if_needed(StoreEntry(c, files, digest, data, t1, t2))

Miss == [hit |-> FALSE]

\* get_layer(files): the cache afterwards and the value returned
get_layer(c, files, t) ==
    LET key == compute_files_digest(files) IN
    IF ~c.enabled THEN [cache |-> c, ret |-> Miss]
    ELSE IF key \in Keys(c.index)
    THEN LET entry == Entry(c.index, key) IN
         IF Exists(c.blobs, entry.digest)
         THEN [cache |-> save_index([c EXCEPT !.index =
                            SetKey(c.index, [entry EXCEPT !.last_used = t])]),
               ret |-> [hit |-> TRUE, digest |-> entry.digest,
                        data |-> ReadBytes(c.blobs, entry.digest)]]
         ELSE [cache |-> save_index([c EXCEPT !.index = DelKey(c.index, key)]),
               ret |-> Miss]
    ELSE [cache |-> c, ret |-> Miss]

\* LayerCache(cache_dir, max_size_mb) on a new directory; None disables it
NewCache(enabled, max) ==
    [enabled |-> enabled, max_size_bytes |-> IF enabled THEN max ELSE 0,
     index |-> <<>>, saved |-> <<>>, index_file |-> FALSE, blobs |-> {}]

\* clear(): blobs_dir and index.json are removed, the directory is made
\* again, the index in memory is emptied.  Without a cache directory
\* self.blobs_dir is None and None.exists() raises AttributeError
clear(c) ==
    IF ~c.enabled THEN [cache |-> c, raised |-> "AttributeError"]
    ELSE [cache |-> [c EXCEPT !.blobs = {}, !.index_file = FALSE, !.index = <<>>],
          raised |-> ""]

\* get_stats(), the sizes in bytes and the percentage rounded down
get_stats(c) ==
    [entries |-> Len(c.index), total_size |-> SumSizes(c.index),
     max_size |-> c.max_size_bytes,
     usage_percent |-> IF c.max_size_bytes > 0
                       THEN (SumSizes(c.index) * 100) \div c.max_size_bytes ELSE 0]

\* LayerCache(cache_dir) opened on the directory of c by another handle
Reopened(c) == [c EXCEPT !.index = load_index(c)]

-----------------------------------------------------------------------------
(* The cache driven through its own interface *)

\* max_size_mb * 1024 * 1024, scaled down
MaxSizes == {3, 5}

\* tars a caller stores: two of length 2, one of length 5
LayerDatas == {Bytes(1, 2), Bytes(2, 2), Bytes(3, 5)}

\* time.time(): never behind the last reading, and not always ahead of it
Readings(t) == {u \in {t, t + 1} : u <= MaxClock}

NoCall == [op |-> "none"]

\* the call a get_layer follows: a store_layer with its arguments, or another call
Args(call) ==
    IF call.op = "store"
    THEN [op |-> "store", files |-> call.files, digest |-> call.digest, data |-> call.data]
    ELSE [op |-> call.op]

Idle == [op |-> "idle"]

NoClient == [auth_token |-> FALSE, username |-> FALSE, password |-> FALSE,
             bearer |-> FALSE]

\* no build() or push() has been called
NoOutcome == [op |-> "none", result |-> "none", error |-> "", at |-> ""]

\* a repository without blobs and without a manifest under the tag
EmptyRegistry == [blobs |-> {}, manifests |-> <<>>]

\* no ImageBuilder in use
NoBuilder ==
    /\ config = [dry_run |-> TRUE]
    /\ inst = [has_manifest_digest |-> FALSE]
    /\ out = [blobs |-> {}, index |-> <<>>, sbom |-> FALSE]
    /\ pc = Idle
    /\ client = NoClient
    /\ wire = <<>>
    /\ acked = {}
    /\ outcome = NoOutcome
    /\ built = FALSE
    /\ ops = 0
    /\ registry = EmptyRegistry

InitCache ==
    /\ cache \in {NewCache(TRUE, max) : max \in MaxSizes} \cup {NewCache(FALSE, 0)}
    /\ now = 0
    /\ cacheOps = 0
    /\ lastCall = NoCall
    /\ NoBuilder

CallStoreLayer ==
    /\ cacheOps < MaxCacheOps
    /\ \E files \in FileLists, data \in LayerDatas :
       \E t1 \in Readings(now) : \E t2 \in Readings(t1) :
          /\ cache' = store_layer(cache, files, Sha256(data), data, t1, t2)
          /\ now' = t2
          /\ lastCall' = [op |-> "store", files |-> files, digest |-> Sha256(data),
                          data |-> data,
                          stored |-> StoreEntry(cache, files, Sha256(data), data, t1, t2).index]
    /\ cacheOps' = cacheOps + 1
    /\ UNCHANGED builderVars

CallGetLayer ==
    /\ cacheOps < MaxCacheOps
    /\ \E files \in FileLists : \E t \in Readings(now) :
          LET r == get_layer(cache, files, t) IN
          /\ cache' = r.cache
          /\ now' = IF r.ret.hit THEN t ELSE now
          /\ lastCall' = [op |-> "get", files |-> files, ret |-> r.ret,
                          after |-> Args(lastCall),
                          found |-> compute_files_digest(files) \in Keys(cache.index)]
    /\ cacheOps' = cacheOps + 1
    /\ UNCHANGED builderVars

CallClear ==
    /\ cacheOps < MaxCacheOps
    /\ cache' = clear(cache).cache
    /\ lastCall' = [op |-> "clear", raised |-> clear(cache).raised]
    /\ cacheOps' = cacheOps + 1
    /\ UNCHANGED <<now, builderVars>>

CallGetStats ==
    /\ cacheOps < MaxCacheOps
    /\ lastCall' = [op |-> "stats", stats |-> get_stats(cache)]
    /\ cacheOps' = cacheOps + 1
    /\ UNCHANGED <<cache, now, builderVars>>

NextCache == CallStoreLayer \/ CallGetLayer \/ CallClear \/ CallGetStats

SpecCache == InitCache /\ [][NextCache]_vars

-----------------------------------------------------------------------------
(* registry_client.py: RegistryClient *)

\* RegistryClient(registry, repository, auth_token, username, password)
NewClient(auth_token, username, password) ==
    [auth_token |-> auth_token, username |-> username, password |-> password,
     bearer |-> FALSE]

\* the Authorization header _make_request sets
AuthHeader(cl) ==
    IF cl.bearer THEN "bearer_exchanged"
    ELSE IF cl.auth_token THEN "bearer_supplied"
    ELSE IF cl.username /\ cl.password THEN "basic"
    ELSE "none"

\* a pull_blob that looks at the pre-supplied credentials only
BlobAuthHeaderSuppliedOnly(cl) ==
    IF cl.auth_token THEN "bearer_supplied"
    ELSE IF cl.username /\ cl.password THEN "basic"
    ELSE "none"

\* the Authorization header pull_blob sets on its first request
BlobAuthHeader(cl) ==
    IF cl.bearer THEN "bearer_exchanged"
    ELSE IF cl.auth_token THEN "bearer_supplied"
    ELSE IF cl.username /\ cl.password THEN "basic"
    ELSE "none"

\* the Authorization header _get_bearer_token sends to the realm
TokenAuthHeader(cl) ==
    IF cl.username /\ cl.password THEN "basic"
    ELSE IF cl.password THEN "bearer_password"
    ELSE "none"

\* URLs
BlobUrl(digest) == [kind |-> "blob", digest |-> digest]

UploadsUrl == [kind |-> "uploads"]

UploadUrl(digest) == [kind |-> "upload", digest |-> digest]

ManifestByTag == [kind |-> "manifest", tag |-> TRUE]

ManifestByDigest(digest) == [kind |-> "manifest", digest |-> digest]

RealmUrl == [kind |-> "realm"]

LocationUrl == [kind |-> "location"]

NoBody == [kind |-> "empty"]

Garbage == Bytes(0, 1)

\* the JSON error document of a registry
ErrorJson == [kind |-> "errors"]

\* bytes that are not UTF-8
NotUtf8 == Bytes(0, 2)

\* body.decode(): raises UnicodeDecodeError on bytes that are not UTF-8
Decodes(body) == body # NotUtf8

Decoded(body) == IF body = NoBody THEN "" ELSE IF body = ErrorJson THEN "{errors}" ELSE "?"

\* f"<what>: {status} {body.decode()}"
FailureMessage(what, status, body) ==
    "RuntimeError: " \o what \o ": " \o ToString(status) \o " " \o Decoded(body)

\* a _make_request call about to send
Req(method, target) ==
    [phase |-> "send", method |-> method, target |-> target, retry_auth |-> TRUE]

\* what _make_request returns: (status, body, headers), the headers being
\* Location and Www-Authenticate
Returned(ans) ==
    [phase |-> "returned", status |-> ans.status, body |-> ans.body,
     location |-> ans.location, challenge |-> ans.challenge]

\* a pull_blob call about to send
BlobReq(digest) == [phase |-> "blob", digest |-> digest]

Answer(status, challenge, body, location) ==
    [status |-> status, challenge |-> challenge, body |-> body, location |-> location]

\* Www-Authenticate of a 401: absent, not a Bearer challenge with parameters,
\* a Bearer challenge without realm, a Bearer challenge with realm
Challenges == {"none", "unparsable", "norealm", "bearer"}

\* _parse_www_authenticate: whether it returns parameters
parse_www_authenticate(challenge) == challenge \in {"norealm", "bearer"}

\* auth_params.get('realm')
HasRealm(challenge) == challenge = "bearer"

\* the base image as the registry holds it
BaseSettings ==
    [Env |-> << <<"PATH", "=", "/usr/bin">>, <<"PYTHON", "=", "3.11">> >>,
     WorkingDir |-> "/", Entrypoint |-> <<"/usr/bin/python">>]

BaseConfig ==
    [kind |-> "config", rootfs |-> "base", architecture |-> "amd64", os |-> "linux",
     settings |-> BaseSettings]

\* another image config: valid JSON, not the bytes the digest names
TamperedConfig == [BaseConfig EXCEPT !.rootfs = "tampered"]

BaseLayerData(i) == Bytes(10 + i, 1)

Descriptor(mediaType, data) ==
    [mediaType |-> mediaType, digest |-> Sha256(data), size |-> Size(data)]

ImageManifest(n) ==
    [kind |-> "manifest",
     config |-> Descriptor("config", BaseConfig),
     layers |-> [i \in 1..n |-> Descriptor("tar+gzip", BaseLayerData(i))]]

\* the manifest of the base image for one architecture; the arm64 image
\* has a config of its own
PlatformManifest(arch) ==
    IF arch = "amd64" THEN ImageManifest(MaxBaseLayers)
    ELSE [ImageManifest(MaxBaseLayers) EXCEPT
             !.config = Descriptor("config", [BaseConfig EXCEPT !.architecture = arch])]

ImageIndex(archs) ==
    [kind |-> "index",
     manifests |-> [i \in 1..Len(archs) |->
                      [platform |-> [architecture |-> archs[i], os |-> "linux"],
                       digest |-> Sha256(PlatformManifest(archs[i]))]]]

\* bodies of a 200 to GET manifests/<ref>
ManifestBodies ==
    {ImageManifest(n) : n \in 1..MaxBaseLayers}
        \cup {ImageIndex(<<"arm64", "amd64">>), ImageIndex(<<"arm64">>), NoBody, Garbage}

\* the answers of the registry to a request of _make_request; status 0 is a
\* connection that fails (urlopen raises something other than HTTPError)
Answers(req) ==
    {Answer(401, c, NoBody, FALSE) : c \in Challenges}
        \cup {Answer(0, "none", NoBody, FALSE)}
        \cup (IF req.method = "HEAD"
              THEN {Answer(200, "none", NoBody, FALSE), Answer(404, "none", NoBody, FALSE)}
              ELSE IF req.method = "POST"
              THEN {Answer(202, "none", NoBody, TRUE), Answer(202, "none", NoBody, FALSE),
                    Answer(500, "none", NoBody, FALSE)}
              ELSE IF req.method = "PUT"
              THEN {Answer(st, "none", NoBody, FALSE) : st \in {200, 201, 202}}
                       \cup {Answer(500, "none", b, FALSE) : b \in {ErrorJson, NotUtf8}}
              ELSE {Answer(200, "none", b, FALSE) : b \in ManifestBodies}
                       \cup {Answer(404, "none", NoBody, FALSE)})

\* bodies a registry or its storage may send for a blob
BlobBodies(digest) ==
    {digest.of, Garbage} \cup (IF digest.of.kind = "config" THEN {TamperedConfig} ELSE {})

\* answers to the first request of pull_blob
BlobAnswers(digest) ==
    {Answer(200, "none", b, FALSE) : b \in BlobBodies(digest)}
        \cup {Answer(307, "none", NoBody, TRUE), Answer(307, "none", NoBody, FALSE),
              Answer(401, "bearer", NoBody, FALSE), Answer(0, "none", NoBody, FALSE)}

\* answers of the storage service to the redirected request; a 206 carries
\* a part of the blob
StorageAnswers(digest) ==
    {Answer(200, "none", b, FALSE) : b \in BlobBodies(digest)}
        \cup {Answer(206, "none", Garbage, FALSE), Answer(403, "none", NoBody, FALSE)}

\* urlopen returns the response of a 2xx and raises HTTPError otherwise
UrlopenReturns(status) == status >= 200 /\ status < 300

\* one request as it went over the wire: what was sent, whether the client
\* held a cached bearer token when it sent it, and the answer
Sent(kind, method, target, auth, status, token) ==
    [kind |-> kind, method |-> method, target |-> target, auth |-> auth,
     cached |-> client.bearer, status |-> status, token |-> token]

\* the registry has the blob of a HEAD it answers 200 and of an upload PUT
\* it answers 201 or 202
Acknowledged(req, status) ==
    IF req.method = "HEAD" /\ status = 200 THEN {req.target.digest}
    ELSE IF req.method = "PUT" /\ req.target.kind = "upload" /\ status \in {201, 202}
    THEN {req.target.digest}
    ELSE {}

\* the running operation ends with an exception raised in the phase it is in
Raise(error) ==
    /\ pc' = Idle
    /\ outcome' = [op |-> pc.op, result |-> "error", error |-> error, at |-> pc.phase]

Return ==
    /\ pc' = Idle
    /\ outcome' = [op |-> pc.op, result |-> "ok", error |-> "", at |-> pc.phase]

\* a client that answers every Bearer challenge with a token exchange
MayExchangeAlways(req, cl, ans) ==
    /\ ans.status = 401
    /\ ans.challenge # "none"
    /\ parse_www_authenticate(ans.challenge)
    /\ HasRealm(ans.challenge)

\* _make_request on an HTTPError: whether _get_bearer_token sends a request
MayExchange(req, cl, ans) ==
    /\ ans.status = 401
    /\ req.retry_auth
    /\ ~cl.bearer
    /\ ans.challenge # "none"
    /\ parse_www_authenticate(ans.challenge)
    /\ HasRealm(ans.challenge)

\* _make_request: the request is sent and answered; on a 401 with a Bearer
\* challenge, first try, no cached token, the token exchange comes next
MakeRequest(ans) ==
    /\ wire' = Append(wire, Sent(IF pc.req.retry_auth THEN "send" ELSE "retry",
                                 pc.req.method, pc.req.target, AuthHeader(client),
                                 ans.status, FALSE))
    /\ acked' = acked \cup Acknowledged(pc.req, ans.status)
    /\ IF ans.status = 0 THEN Raise("RuntimeError: request failed")
       ELSE /\ outcome' = outcome
            /\ pc' = [pc EXCEPT !.req =
                  IF MayExchange(pc.req, client, ans)
                  THEN [pc.req EXCEPT !.phase = "exchange"]
                  ELSE Returned(ans)]
    /\ UNCHANGED <<cacheVars, config, inst, out, client, built, ops>>

\* a request of _make_request against a registry that answers as it likes
RegistryAnswers ==
    /\ pc.op # "idle"
    /\ pc.req.phase = "send"
    /\ \E ans \in Answers(pc.req) : MakeRequest(ans)
    /\ registry' = registry

\* _get_bearer_token: the token service grants a token or fails in any way
\* (except: return None); with a token the request is sent once more with
\* retry_auth=False, without one the 401 is returned
TokenServiceAnswers ==
    /\ pc.op # "idle"
    /\ pc.req.phase = "exchange"
    /\ \E token \in BOOLEAN :
          /\ wire' = Append(wire, Sent("token", "GET", RealmUrl, TokenAuthHeader(client),
                                       IF token THEN 200 ELSE 403, token))
          /\ client' = [client EXCEPT !.bearer = token]
          /\ pc' = [pc EXCEPT !.req =
                IF token
                THEN [pc.req EXCEPT !.phase = "send", !.retry_auth = FALSE]
                ELSE Returned(Answer(401, "bearer", NoBody, FALSE))]
    /\ UNCHANGED <<cacheVars, registry, config, inst, out, acked, outcome, built, ops>>

\* pull_blob: the first request, sent with redirects disabled
BlobRegistryAnswers ==
    /\ pc.op = "build"
    /\ pc.req.phase = "blob"
    /\ \E ans \in BlobAnswers(pc.req.digest) :
          /\ wire' = Append(wire, Sent("blob", "GET", BlobUrl(pc.req.digest),
                                       BlobAuthHeader(client), ans.status, FALSE))
          /\ IF ans.status = 200
             THEN /\ out' = [out EXCEPT !.blobs = WriteBytes(@, pc.req.digest, ans.body)]
                  /\ pc' = [pc EXCEPT !.req = [phase |-> "pulled"]]
                  /\ outcome' = outcome
             ELSE IF ans.status = 307 /\ ans.location
             THEN /\ pc' = [pc EXCEPT !.req.phase = "redirect"]
                  /\ UNCHANGED <<out, outcome>>
             ELSE /\ Raise(IF ans.status = 0 THEN "URLError"
                           ELSE "RuntimeError: failed to pull blob")
                  /\ out' = out
    /\ UNCHANGED <<cacheVars, registry, config, inst, client, acked, built, ops>>

\* pull_blob: the request to the Location of a 3xx, without Authorization
BlobStorageAnswers ==
    /\ pc.op = "build"
    /\ pc.req.phase = "redirect"
    /\ \E ans \in StorageAnswers(pc.req.digest) :
          /\ wire' = Append(wire, Sent("redirect", "GET", LocationUrl, "none",
                                       ans.status, FALSE))
          /\ IF UrlopenReturns(ans.status)
             THEN /\ out' = [out EXCEPT !.blobs = WriteBytes(@, pc.req.digest, ans.body)]
                  /\ pc' = [pc EXCEPT !.req = [phase |-> "pulled"]]
                  /\ outcome' = outcome
             ELSE /\ Raise("HTTPError")
                  /\ out' = out
    /\ UNCHANGED <<cacheVars, registry, config, inst, client, acked, built, ops>>

-----------------------------------------------------------------------------
(* builder.py: ImageBuilder.build *)

\* the files iter_files yields for the context directory
ContextFiles == <<FileStat("b", 1, 1), FileStat("a", 1, 1)>>

\* the platform attribute as the callers set it: the string "<os>/<arch>"
Platform(os_name, architecture) == <<os_name, "/", architecture>>

\* a BuildConfig on which the attribute was never set
Without(cfg, key) == [k \in DOMAIN cfg \ {key} |-> cfg[k]]

\* BuildConfig as the callers set it up; reproducible, dry_run, generate_sbom
\* and platform are attributes a caller may or may not have set
BuildConfig(dry_run, base_image, include_deps, use_cache, cache_dir, reproducible, sbom, platform) ==
    [dry_run |-> dry_run, base_image |-> base_image, include_deps |-> include_deps,
     use_cache |-> use_cache, cache_dir |-> cache_dir, reproducible |-> reproducible,
     generate_sbom |-> sbom, platform |-> platform]

Configs ==
    {BuildConfig(TRUE, TRUE, FALSE, FALSE, FALSE, "unset", FALSE, Platform("linux", "amd64")),
     BuildConfig(FALSE, FALSE, FALSE, TRUE, FALSE, "on", FALSE, Platform("linux", "amd64")),
     BuildConfig(FALSE, TRUE, TRUE, TRUE, TRUE, "on", TRUE, Platform("linux", "amd64")),
     BuildConfig(FALSE, TRUE, FALSE, FALSE, FALSE, "off", FALSE, Platform("linux", "arm64")),
     Without(BuildConfig(FALSE, TRUE, FALSE, TRUE, FALSE, "unset", FALSE, <<>>), "platform"),
     BuildConfig(FALSE, TRUE, FALSE, TRUE, TRUE, "unset", FALSE, <<"amd64">>)}

\* max_cache_size_mb of the builder's cache
BuilderCacheSize == 5

\* the tar _create_deps_layer writes: tar.add of every file as it is found
DepsTar(files) == [kind |-> "tar", members |-> files, len |-> Len(files)]

\* the tar of the dependency files
DepsLayerData == DepsTar(<<FileStat("deps", 1, 1)>>)

ZeroMtime(files) == [i \in 1..Len(files) |-> [files[i] EXCEPT !.mtime = 0]]

\* the tar _create_app_layer writes
AppLayerData(files, reproducible) ==
    [kind |-> "tar",
     members |-> IF reproducible THEN ZeroMtime(SortByRel(files)) ELSE files,
     len |-> Len(files)]

\* OCILayer
OCILayer(media_type, digest, size) ==
    [mediaType |-> media_type, digest |-> digest, size |-> size]

\* a JSON object: obj.get(key, default), key in obj, obj[key] = val
Get(obj, key, default) == IF key \in DOMAIN obj THEN obj[key] ELSE default

Has(obj, key) == key \in DOMAIN obj

Put(obj, key, val) == [k \in DOMAIN obj \cup {key} |-> IF k = key THEN val ELSE obj[k]]

\* a dict in insertion order, a sequence of items with distinct keys:
\* d[key] = val keeps the place of a key the dict has and appends a new one
DictKeys(d) == {d[i].k : i \in DOMAIN d}

DictGet(d, key, default) ==
    IF key \in DictKeys(d) THEN d[CHOOSE i \in DOMAIN d : d[i].k = key].v ELSE default

DictPut(d, key, val) ==
    IF key \in DictKeys(d)
    THEN [i \in DOMAIN d |-> IF d[i].k = key THEN [k |-> key, v |-> val] ELSE d[i]]
    ELSE Append(d, [k |-> key, v |-> val])

\* {**a, **b}
RECURSIVE DictMerge(_, _)
DictMerge(a, b) == IF b = <<>> THEN a ELSE DictMerge(DictPut(a, b[1].k, b[1].v), Tail(b))

\* a string is a sequence of tokens; '=' in kv, kv.split('=',1), f"{k}={v}"
HasEquals(kv) == \E i \in DOMAIN kv : kv[i] = "="

FirstEquals(kv) == CHOOSE i \in DOMAIN kv : kv[i] = "=" /\ \A j \in 1..(i - 1) : kv[j] # "="

SplitKey(kv) == SubSeq(kv, 1, FirstEquals(kv) - 1)

SplitValue(kv) == SubSeq(kv, FirstEquals(kv) + 1, Len(kv))

FormatEnv(k, v) == k \o <<"=">> \o v

\* the dict comprehension over the base Env: entries without '=' are left out
RECURSIVE base_env(_)
base_env(entries) ==
    IF entries = <<>> THEN <<>>
    ELSE LET rest == base_env(SubSeq(entries, 1, Len(entries) - 1))
             kv == entries[Len(entries)]
         IN  IF HasEquals(kv) THEN DictPut(rest, SplitKey(kv), SplitValue(kv)) ELSE rest

\* [f"{k}={v}" for k,v in merged_env.items()]
EnvList(d) == [i \in DOMAIN d |-> FormatEnv(d[i].k, d[i].v)]

\* str.lower() on the tokens of a label value
Lower(token) ==
    CASE token = "DISTROLESS" -> "distroless"
      [] token = "FastAPI" -> "fastapi"
      [] token = "Flask" -> "flask"
      [] token = "Django" -> "django"
      [] OTHER -> token

Contains(str, token) == \E i \in DOMAIN str : Lower(str[i]) = token

\* is_distroless
is_distroless(base_config) ==
    LET labels == Get(base_config.settings, "Labels", <<>>)
    IN  \/ Contains(DictGet(labels, "org.opencontainers.image.base.name", <<>>), "distroless")
        \/ Contains(DictGet(labels, "name", <<>>), "distroless")

Shells == {"/bin/sh", "/bin/bash", "sh", "bash"}

\* the image config intent of a BuildConfig; an unset list is empty, an
\* unset string is ""
AppSettings(env, working_dir, entrypoint, exposed_ports, labels, user, cmd) ==
    [env |-> env, working_dir |-> working_dir, entrypoint |-> entrypoint,
     exposed_ports |-> exposed_ports, labels |-> labels, user |-> user, cmd |-> cmd]

\* build_config_json with a base config, one definition per key it sets.
\* cfg is a shallow copy: cfg['config'] is the base's own config object, so
\* every assignment is seen by the later reads of base_config['config'];
\* each step takes and gives the whole config document
SetConfigKey(cfg, key, val) == [cfg EXCEPT !.settings = Put(@, key, val)]

\* Env: {**base_env, **env}
MergeEnv(cfg, app) ==
    SetConfigKey(cfg, "Env",
           EnvList(DictMerge(base_env(Get(cfg.settings, "Env", <<>>)), app.env)))

\* WorkingDir: working_dir or the base's, else /app
MergeWorkingDir(cfg, app) ==
    SetConfigKey(cfg, "WorkingDir",
           IF app.working_dir # "" THEN app.working_dir
           ELSE Get(cfg.settings, "WorkingDir", "/app"))

\* Entrypoint: a shell entrypoint on a distroless base becomes Cmd
MergeEntrypoint(cfg, app) ==
    LET base_entrypoint == Get(cfg.settings, "Entrypoint", <<>>)
    IN  IF app.entrypoint # <<>>
        THEN IF is_distroless(cfg) /\ app.entrypoint[1] \in Shells
             THEN IF base_entrypoint # <<>>
                  THEN SetConfigKey(SetConfigKey(cfg, "Cmd", app.entrypoint),
                              "Entrypoint", base_entrypoint)
                  ELSE SetConfigKey(cfg, "Cmd", app.entrypoint)
             ELSE SetConfigKey(cfg, "Entrypoint", app.entrypoint)
        ELSE IF base_entrypoint # <<>>
        THEN SetConfigKey(cfg, "Entrypoint", base_entrypoint)
        ELSE cfg

\* Cmd: cmd, else the Cmd the config has by now
MergeCmd(cfg, app) ==
    IF app.cmd # <<>> THEN SetConfigKey(cfg, "Cmd", app.cmd)
    ELSE IF Has(cfg.settings, "Cmd") THEN SetConfigKey(cfg, "Cmd", cfg.settings.Cmd)
    ELSE cfg

\* User: user, else the base's
MergeUser(cfg, app) ==
    IF app.user # "" THEN SetConfigKey(cfg, "User", app.user)
    ELSE IF Has(cfg.settings, "User") THEN SetConfigKey(cfg, "User", cfg.settings.User)
    ELSE cfg

\* Labels: {**base_labels, **labels}
MergeLabels(cfg, app) ==
    LET base_labels == Get(cfg.settings, "Labels", <<>>)
    IN  IF app.labels # <<>>
        THEN SetConfigKey(cfg, "Labels", DictMerge(base_labels, app.labels))
        ELSE IF base_labels # <<>> THEN SetConfigKey(cfg, "Labels", base_labels)
        ELSE cfg

MergeConfig(app, base_config) ==
    MergeLabels(MergeUser(MergeCmd(MergeEntrypoint(MergeWorkingDir(
        MergeEnv(base_config, app), app), app), app), app), app)

\* build_config_json without a base config
NewConfig(architecture, os_name, app) ==
    LET c0 == [Env |-> EnvList(app.env), WorkingDir |-> app.working_dir,
               Entrypoint |-> app.entrypoint]
        c1 == IF app.labels # <<>> THEN Put(c0, "Labels", app.labels) ELSE c0
        c2 == IF app.user # "" THEN Put(c1, "User", app.user) ELSE c1
        c3 == IF app.cmd # <<>> THEN Put(c2, "Cmd", app.cmd) ELSE c2
    IN  [kind |-> "config", rootfs |-> "none", architecture |-> architecture,
         os |-> os_name, settings |-> c3]

NoBaseConfig == [kind |-> "none"]

\* build_config_json
build_config_json(architecture, os_name, app, base_config) ==
    LET cfg == IF base_config # NoBaseConfig THEN MergeConfig(app, base_config)
               ELSE NewConfig(architecture, os_name, app)
    IN  IF app.exposed_ports # <<>>
        THEN [cfg EXCEPT !.settings = Put(@, "ExposedPorts",
                             {app.exposed_ports[i] : i \in DOMAIN app.exposed_ports})]
        ELSE cfg

\* the object the caller passed as base_config, after the call:
\* cfg=base_config.copy() copies the outer dict only, cfg['config'] is the
\* 'config' dict of base_config itself, and every assignment of the merge
\* goes to it
BaseConfigAfter(architecture, os_name, app, base_config) ==
    IF base_config # NoBaseConfig
    THEN [base_config EXCEPT
             !.settings = build_config_json(architecture, os_name, app, base_config).settings]
    ELSE base_config

\* env, workdir, entrypoint, exposed_ports, labels, user and cmd of the
\* configurations: the entrypoint is set, cmd, user and labels are not
BuildSettings ==
    AppSettings(<<[k |-> <<"DEBUG">>, v |-> <<"true">>]>>, "/app",
                <<"python", "-m", "app">>, <<>>, <<>>, "", <<>>)

\* build_manifest_json
build_manifest_json(config_digest, config_size, layers) ==
    [kind |-> "manifest",
     config |-> OCILayer("config", config_digest, config_size),
     layers |-> layers]

\* build_index_json: one manifest descriptor, its platform fixed
build_index_json(manifest_digest, manifest_size) ==
    <<[mediaType |-> "manifest", digest |-> manifest_digest, size |-> manifest_size,
       platform |-> [architecture |-> "amd64", os |-> "linux"]]>>

\* the cache directory as an earlier run with the same context left it
UsedCache ==
    store_layer(NewCache(TRUE, BuilderCacheSize), ContextFiles,
                Sha256(AppLayerData(ContextFiles, TRUE)),
                AppLayerData(ContextFiles, TRUE), 0, 0)

\* ImageBuilder.__init__ : self.cache
BuilderCaches(cfg) ==
    IF ~cfg.use_cache THEN {NewCache(FALSE, 0)}
    ELSE IF ~cfg.cache_dir THEN {NewCache(FALSE, 0)}
    ELSE {NewCache(TRUE, BuilderCacheSize), UsedCache}

NoInst == [has_manifest_digest |-> FALSE]

NoOutput == [blobs |-> {}, index |-> <<>>, sbom |-> FALSE]

Init ==
    /\ config \in Configs
    /\ cache \in BuilderCaches(config)
    /\ now = 0
    /\ cacheOps = 0
    /\ lastCall = NoCall
    /\ inst = NoInst
    /\ out = NoOutput
    /\ pc = Idle
    /\ client = NoClient
    /\ wire = <<>>
    /\ acked = {}
    /\ outcome = NoOutcome
    /\ built = FALSE
    /\ ops = 0
    /\ registry = EmptyRegistry

\* build() up to the first request of _pull_base_image
StartBuild ==
    /\ pc = Idle
    /\ ops < MaxOps
    /\ ops' = ops + 1
    /\ wire' = <<>>
    /\ \E env_token \in BOOLEAN :
          IF config.dry_run
          THEN /\ outcome' = [op |-> "build", result |-> "ok", error |-> "", at |-> "dry_run"]
               /\ UNCHANGED <<pc, client>>
          ELSE IF ~config.base_image
          THEN /\ outcome' = [op |-> "build", result |-> "error", error |-> "TypeError",
                              at |-> "manifest"]
               /\ UNCHANGED <<pc, client>>
          ELSE /\ outcome' = [op |-> "build", result |-> "running", error |-> "", at |-> ""]
               /\ client' = NewClient(env_token, FALSE, FALSE)
               /\ pc' = [op |-> "build", phase |-> "manifest", i |-> 0,
                         req |-> Req("GET", ManifestByTag)]
    /\ UNCHANGED <<cacheVars, registry, config, inst, out, acked, built>>

\* the entry of an index that _pull_base_image follows
IsAmd64Linux(m) == m.platform.architecture = "amd64" /\ m.platform.os = "linux"

FirstAmd64Linux(index) ==
    LET hits == SelectSeq(index.manifests, IsAmd64Linux)
    IN  IF hits = <<>> THEN <<>> ELSE <<hits[1].digest>>

\* pull_manifest returns or raises; an image index is resolved to the
\* amd64/linux manifest
PullManifestReturns ==
    /\ pc.op = "build"
    /\ pc.phase \in {"manifest", "manifest2"}
    /\ pc.req.phase = "returned"
    /\ IF pc.req.status # 200
       THEN Raise("RuntimeError: failed to pull manifest") /\ wire' = wire
       ELSE IF pc.req.body = NoBody
       THEN Raise("RuntimeError: empty response body") /\ wire' = wire
       ELSE IF pc.req.body = Garbage
       THEN Raise("RuntimeError: invalid JSON") /\ wire' = wire
       ELSE IF pc.req.body.kind = "index" /\ pc.phase = "manifest"
                 /\ FirstAmd64Linux(pc.req.body) # <<>>
       THEN /\ pc' = [pc EXCEPT !.phase = "manifest2",
                        !.req = Req("GET", ManifestByDigest(FirstAmd64Linux(pc.req.body)[1]))]
            /\ wire' = <<>>
            /\ outcome' = outcome
       ELSE IF pc.req.body.kind = "index" THEN Raise("AttributeError") /\ wire' = wire
       ELSE /\ pc' = [op |-> "build", phase |-> "config", i |-> 0,
                      req |-> [phase |-> "check"], manifest |-> pc.req.body]
            /\ wire' = wire
            /\ outcome' = outcome
    /\ UNCHANGED <<cacheVars, registry, config, inst, out, client, acked, built, ops>>

\* the base config: pulled unless the file exists, then read as JSON
PullBaseConfig ==
    /\ pc.op = "build"
    /\ pc.phase = "config"
    /\ pc.req.phase \in {"check", "pulled"}
    /\ LET digest == pc.manifest.config.digest
       IN  IF pc.req.phase = "check" /\ ~Exists(out.blobs, digest)
           THEN /\ pc' = [pc EXCEPT !.req = BlobReq(digest)]
                /\ wire' = <<>>
                /\ outcome' = outcome
           ELSE IF ReadBytes(out.blobs, digest).kind # "config"
           THEN Raise("JSONDecodeError") /\ wire' = wire
           ELSE /\ pc' = [op |-> "build", phase |-> "layer", i |-> 1,
                          req |-> [phase |-> "check"], manifest |-> pc.manifest,
                          base_config |-> ReadBytes(out.blobs, digest)]
                /\ wire' = wire
                /\ outcome' = outcome
    /\ UNCHANGED <<cacheVars, registry, config, inst, out, client, acked, built, ops>>

\* one round of the loop over the base layers: a layer is pulled unless
\* its file exists
PullBaseLayer ==
    /\ pc.op = "build"
    /\ pc.phase = "layer"
    /\ pc.req.phase \in {"check", "pulled"}
    /\ pc' = IF pc.req.phase = "pulled"
             THEN [pc EXCEPT !.i = pc.i + 1, !.req = [phase |-> "check"]]
             ELSE IF pc.i > Len(pc.manifest.layers)
             THEN [pc EXCEPT !.phase = "assemble"]
             ELSE IF Exists(out.blobs, pc.manifest.layers[pc.i].digest)
             THEN [pc EXCEPT !.i = pc.i + 1]
             ELSE [pc EXCEPT !.req = BlobReq(pc.manifest.layers[pc.i].digest)]
    /\ wire' = IF pc'.req.phase = "blob" THEN <<>> ELSE wire
    /\ UNCHANGED <<cacheVars, registry, config, inst, out, client, acked, outcome, built, ops>>

\* time.time() as the cache calls of a build read it: a build is short
\* against the clock's tick, and the builder's cache never has to evict
BuildReadings(t) == {t}

\* a builder that trusts the cache hit and copies nothing
ReferToCachedLayer(blobs, digest, data) == blobs

\* _create_app_layer on a cache hit: the blob is copied from the cache
\* unless the output already has a file of that name
PlaceCachedLayer(blobs, digest, data) ==
    IF Exists(blobs, digest) THEN blobs ELSE WriteBytes(blobs, digest, data)

\* _create_app_layer of a builder with a cache: the cache afterwards and the
\* bytes of the layer it returns, copied from the cache on a hit and written
\* as a tar and stored otherwise
create_app_layer(c, files, reproducible, t) ==
    IF get_layer(c, files, t).ret.hit
    THEN [cache |-> get_layer(c, files, t).cache, data |-> get_layer(c, files, t).ret.data]
    ELSE [cache |-> store_layer(get_layer(c, files, t).cache, files,
                                Sha256(AppLayerData(files, reproducible)),
                                AppLayerData(files, reproducible), t, t),
          data |-> AppLayerData(files, reproducible)]

\* _create_deps_layer
create_deps_layer(blobs) ==
    IF config.include_deps
    THEN [blobs |-> WriteBytes(blobs, Sha256(DepsLayerData), DepsLayerData),
          layers |-> <<OCILayer("tar", Sha256(DepsLayerData), Size(DepsLayerData))>>]
    ELSE [blobs |-> blobs, layers |-> <<>>]

\* base layers taken over under the media type of the builder's own layers
BaseLayersAsTar(manifest) ==
    [i \in 1..Len(manifest.layers) |->
        OCILayer("tar", manifest.layers[i].digest, manifest.layers[i].size)]

\* the base layers as _pull_base_image returns them
BaseLayers(manifest) ==
    [i \in 1..Len(manifest.layers) |->
        OCILayer(manifest.layers[i].mediaType, manifest.layers[i].digest,
                 manifest.layers[i].size)]

\* build() from the config JSON on: config, manifest, index.json, the
\* attributes push() reads, then the SBOM if asked for
Assembled(blobs, base_manifest, base_config, app_layers) ==
    LET all_layers == BaseLayers(base_manifest) \o app_layers
        cfg == build_config_json("amd64", "linux", BuildSettings, base_config)
        manifest == build_manifest_json(Sha256(cfg), Size(cfg), all_layers)
    IN  [inst |-> [has_manifest_digest |-> TRUE, manifest_digest |-> Sha256(manifest),
                   config_digest |-> Sha256(cfg), layers |-> all_layers],
         blobs |-> WriteBytes(WriteBytes(blobs, Sha256(cfg), cfg), Sha256(manifest), manifest),
         index |-> build_index_json(Sha256(manifest), Size(manifest))]

\* the end of build(): the image is written and the attributes are set, then
\* generate_sbom runs if asked for and may raise
FinishBuild(blobs, app_layers) ==
    LET image == Assembled(blobs, pc.manifest, pc.base_config, app_layers)
    IN  /\ inst' = image.inst
        /\ \E sbom_written \in (IF config.generate_sbom THEN BOOLEAN ELSE {TRUE}) :
              /\ out' = [blobs |-> image.blobs, index |-> image.index,
                         sbom |-> config.generate_sbom /\ sbom_written]
              /\ IF sbom_written
                 THEN Return /\ built' = TRUE
                 ELSE Raise("UnicodeDecodeError") /\ built' = built

\* whether the files under a call of the cache can be read: stat() of a
\* context file in _compute_files_digest raises OSError when they cannot
StatOutcomes(c) == IF c.enabled THEN {"ok", "OSError"} ELSE {"ok"}

\* get_layer or store_layer raised before it changed the cache: nothing
\* in _create_app_layer or build() catches it
CacheRaises(blobs, error) ==
    /\ cache' = cache
    /\ now' = now
    /\ out' = [out EXCEPT !.blobs = blobs]
    /\ Raise(error)
    /\ UNCHANGED <<inst, built>>

\* build() from the dependency layer to its return
AssembleImage ==
    /\ pc.op = "build"
    /\ pc.phase = "assemble"
    /\ LET deps == create_deps_layer(out.blobs)
       IN  \E t \in BuildReadings(now) : \E lookup \in StatOutcomes(cache) :
             LET r == get_layer(cache, ContextFiles, t)
             IN  IF lookup # "ok"
                 THEN CacheRaises(deps.blobs, lookup)
                 ELSE IF r.ret.hit
                 THEN /\ cache' = r.cache
                      /\ now' = t
                      /\ FinishBuild(PlaceCachedLayer(deps.blobs, r.ret.digest, r.ret.data),
                                     deps.layers \o <<OCILayer("tar", r.ret.digest,
                                                               Size(r.ret.data))>>)
                 ELSE IF config.reproducible = "unset"
                 THEN /\ cache' = r.cache
                      /\ now' = now
                      /\ out' = [out EXCEPT !.blobs = deps.blobs]
                      /\ Raise("AttributeError")
                      /\ UNCHANGED <<inst, built>>
                 ELSE LET data == AppLayerData(ContextFiles, config.reproducible = "on")
                      IN  \E store \in StatOutcomes(cache) :
                            IF store # "ok"
                            THEN CacheRaises(WriteBytes(deps.blobs, Sha256(data), data), store)
                            ELSE /\ \E t1 \in BuildReadings(now) : \E t2 \in BuildReadings(t1) :
                                       /\ cache' = store_layer(r.cache, ContextFiles,
                                                               Sha256(data), data, t1, t2)
                                       /\ now' = IF cache.enabled THEN t2 ELSE now
                                 /\ FinishBuild(WriteBytes(deps.blobs, Sha256(data), data),
                                                deps.layers \o <<OCILayer("tar", Sha256(data),
                                                                          Size(data))>>)
    /\ UNCHANGED <<cacheOps, lastCall, config, client, wire, acked, ops, registry>>

-----------------------------------------------------------------------------
(* builder.py: ImageBuilder.push *)

\* what the caller of push() passes and what the environment holds
Credentials(auth_token, username, password, env_token) ==
    [auth_token |-> auth_token, username |-> username, password |-> password,
     env_token |-> env_token]

PushCredentials ==
    {Credentials(FALSE, FALSE, FALSE, FALSE), Credentials(TRUE, FALSE, FALSE, FALSE),
     Credentials(FALSE, TRUE, TRUE, FALSE), Credentials(FALSE, FALSE, FALSE, TRUE),
     Credentials(FALSE, FALSE, TRUE, FALSE)}

\* the client push() constructs; get_auth_for_registry is asked only when
\* neither a token nor a password was passed
PushClient(c) ==
    NewClient(IF ~c.auth_token /\ ~c.password THEN c.env_token ELSE c.auth_token,
              c.username, c.password)

\* the digests push() walks through: every layer, then the config
PushBlobs == [i \in 1..Len(inst.layers) |-> inst.layers[i].digest] \o <<inst.config_digest>>

\* a push_blob that uploads whatever the HEAD says
BlobNeverPresent(status) == FALSE

\* a registry client that takes a 404 for presence as well
BlobPresentUnlessError(status) == status \in {200, 404}

\* blob_exists
BlobPresent(status) == status = 200

InitiateAccepted(status) == status \in {200, 202}

\* an upload whose answer is not looked at
UploadAcceptedAny(status) == TRUE

\* upload_blob_monolithic: the statuses of the PUT that do not raise
UploadAccepted(status) == status \in {201, 202}

\* push_manifest: the statuses that do not raise
ManifestAccepted(status) == status \in {200, 201}

\* raise RuntimeError(f"...: {status} {body.decode()}") after a PUT
WriteFails(what) ==
    IF Decodes(pc.req.body)
    THEN Raise(FailureMessage(what, pc.req.status, pc.req.body))
    ELSE Raise("UnicodeDecodeError")

\* push() up to its first request
StartPush ==
    /\ pc = Idle
    /\ ops < MaxOps
    /\ ops' = ops + 1
    /\ wire' = <<>>
    /\ \E c \in PushCredentials :
          IF ~inst.has_manifest_digest
          THEN /\ outcome' = [op |-> "push", result |-> "error",
                              error |-> "RuntimeError: Must call build() before push()",
                              at |-> "start"]
               /\ UNCHANGED <<pc, client>>
          ELSE /\ outcome' = [op |-> "push", result |-> "running", error |-> "", at |-> ""]
               /\ client' = PushClient(c)
               /\ pc' = [op |-> "push", phase |-> "head", i |-> 1,
                         req |-> Req("HEAD", BlobUrl(PushBlobs[1]))]
    /\ acked' = {}
    /\ UNCHANGED <<cacheVars, registry, config, inst, out, built>>

\* after a blob is done: the HEAD of the next one, or the manifest PUT
NextBlob(i) ==
    IF i <= Len(PushBlobs)
    THEN [op |-> "push", phase |-> "head", i |-> i,
          req |-> Req("HEAD", BlobUrl(PushBlobs[i]))]
    ELSE [op |-> "push", phase |-> "manifest", i |-> i,
          req |-> Req("PUT", ManifestByTag)]

\* push_blob after blob_exists returned: skip, or read the file and POST
BlobExistsReturns ==
    /\ pc.op = "push"
    /\ pc.phase = "head"
    /\ pc.req.phase = "returned"
    /\ IF BlobPresent(pc.req.status)
       THEN pc' = NextBlob(pc.i + 1) /\ wire' = <<>> /\ outcome' = outcome
       ELSE IF ~Exists(out.blobs, PushBlobs[pc.i])
       THEN Raise("FileNotFoundError") /\ wire' = wire
       ELSE /\ pc' = [pc EXCEPT !.phase = "post", !.req = Req("POST", UploadsUrl)]
            /\ wire' = wire
            /\ outcome' = outcome
    /\ UNCHANGED <<cacheVars, registry, config, inst, out, client, acked, built, ops>>

\* initiate_blob_upload after its POST returned
InitiateUploadReturns ==
    /\ pc.op = "push"
    /\ pc.phase = "post"
    /\ pc.req.phase = "returned"
    /\ IF ~InitiateAccepted(pc.req.status)
       THEN Raise("RuntimeError: failed to initiate upload")
       ELSE IF ~pc.req.location
       THEN Raise("RuntimeError: no Location header")
       ELSE /\ pc' = [pc EXCEPT !.phase = "put",
                                !.req = Req("PUT", UploadUrl(PushBlobs[pc.i]))]
            /\ outcome' = outcome
    /\ UNCHANGED <<cacheVars, registry, config, inst, out, client, wire, acked, built, ops>>

\* upload_blob_monolithic after its PUT returned
UploadBlobReturns ==
    /\ pc.op = "push"
    /\ pc.phase = "put"
    /\ pc.req.phase = "returned"
    /\ IF ~UploadAccepted(pc.req.status)
       THEN WriteFails("Blob upload failed") /\ wire' = wire
       ELSE pc' = NextBlob(pc.i + 1) /\ wire' = <<>> /\ outcome' = outcome
    /\ UNCHANGED <<cacheVars, registry, config, inst, out, client, acked, built, ops>>

\* push_manifest after its PUT returned, and the return of push()
PushManifestReturns ==
    /\ pc.op = "push"
    /\ pc.phase = "manifest"
    /\ pc.req.phase = "returned"
    /\ IF ~ManifestAccepted(pc.req.status)
       THEN WriteFails("Manifest push failed")
       ELSE Return
    /\ UNCHANGED <<cacheVars, registry, config, inst, out, client, wire, acked, built, ops>>

Next ==
    \/ StartBuild
    \/ RegistryAnswers
    \/ TokenServiceAnswers
    \/ PullManifestReturns
    \/ PullBaseConfig
    \/ BlobRegistryAnswers
    \/ BlobStorageAnswers
    \/ PullBaseLayer
    \/ AssembleImage
    \/ StartPush
    \/ BlobExistsReturns
    \/ InitiateUploadReturns
    \/ UploadBlobReturns
    \/ PushManifestReturns

Spec == Init /\ [][Next]_vars

-----------------------------------------------------------------------------
(* push() of a built image, again and again, to a registry that keeps what
   it accepts and asks for no credentials *)

\* the digests a manifest refers to
References(manifest) ==
    {manifest.config.digest} \cup {manifest.layers[i].digest : i \in DOMAIN manifest.layers}

\* the answer of such a registry to a request of push(), and what it holds
\* afterwards: an upload is accepted if the bytes have the digest it is sent
\* under, a manifest if the registry has every blob it refers to
Kept(reg, req) ==
    IF req.method = "HEAD"
    THEN [answer |-> Answer(IF req.target.digest \in reg.blobs THEN 200 ELSE 404,
                            "none", NoBody, FALSE),
          registry |-> reg]
    ELSE IF req.method = "POST"
    THEN [answer |-> Answer(202, "none", NoBody, TRUE), registry |-> reg]
    ELSE IF req.target.kind = "upload"
    THEN IF Sha256(ReadBytes(out.blobs, req.target.digest)) = req.target.digest
         THEN [answer |-> Answer(201, "none", NoBody, FALSE),
               registry |-> [reg EXCEPT !.blobs = @ \cup {req.target.digest}]]
         ELSE [answer |-> Answer(400, "none", NoBody, FALSE), registry |-> reg]
    ELSE LET manifest_data == ReadBytes(out.blobs, inst.manifest_digest)
         IN  IF References(manifest_data) \subseteq reg.blobs
             THEN [answer |-> Answer(201, "none", NoBody, FALSE),
                   registry |-> [reg EXCEPT !.manifests = Append(@, manifest_data)]]
             ELSE [answer |-> Answer(400, "none", NoBody, FALSE), registry |-> reg]

\* the files _pull_base_image leaves for a base image pulled unaltered
RECURSIVE PulledLayers(_, _)
PulledLayers(blobs, n) ==
    IF n = 0 THEN blobs
    ELSE WriteBytes(PulledLayers(blobs, n - 1), Sha256(BaseLayerData(n)), BaseLayerData(n))

\* the builder after a build() that pulled the base image unaltered and
\* found no cached app layer
AfterBuild ==
    /\ config \in {c \in Configs : ~c.dry_run /\ c.base_image /\ c.reproducible # "unset"}
    /\ now = 0
    /\ cacheOps = 0
    /\ lastCall = NoCall
    /\ \E c0 \in BuilderCaches(config) :
          LET r == get_layer(c0, ContextFiles, 0)
              data == AppLayerData(ContextFiles, config.reproducible = "on")
              pulled == PulledLayers(WriteBytes({}, Sha256(BaseConfig), BaseConfig),
                                     MaxBaseLayers)
              deps == create_deps_layer(pulled)
              image == Assembled(WriteBytes(deps.blobs, Sha256(data), data),
                                 ImageManifest(MaxBaseLayers), BaseConfig,
                                 deps.layers \o <<OCILayer("tar", Sha256(data), Size(data))>>)
          IN  /\ ~r.ret.hit
              /\ cache = store_layer(r.cache, ContextFiles, Sha256(data), data, 0, 0)
              /\ inst = image.inst
              /\ out = [blobs |-> image.blobs, index |-> image.index,
                        sbom |-> config.generate_sbom]
    /\ pc = Idle
    /\ client = NewClient(FALSE, FALSE, FALSE)
    /\ wire = <<Sent("blob", "GET", BlobUrl(Sha256(BaseLayerData(MaxBaseLayers))),
                     BlobAuthHeader(client), 200, FALSE)>>
    /\ acked = {}
    /\ outcome = [op |-> "build", result |-> "ok", error |-> "", at |-> "assemble"]
    /\ built = TRUE

InitRepush ==
    /\ AfterBuild
    /\ ops = 0
    /\ registry = EmptyRegistry

\* a request of _make_request against the registry that keeps what it accepts
KeepingRegistryAnswers ==
    /\ pc.op = "push"
    /\ pc.req.phase = "send"
    /\ MakeRequest(Kept(registry, pc.req).answer)
    /\ registry' = Kept(registry, pc.req).registry

NextRepush ==
    \/ StartPush
    \/ KeepingRegistryAnswers
    \/ BlobExistsReturns
    \/ InitiateUploadReturns
    \/ UploadBlobReturns
    \/ PushManifestReturns

SpecRepush == InitRepush /\ [][NextRepush]_vars

-----------------------------------------------------------------------------
(* build() again and again on one output directory, against a registry
   that holds the base image and serves it unaltered or cannot be reached;
   a build may be stopped while pull_blob writes a file *)

\* what the registry answers to GET manifests/<tag>
HeldManifestAnswers ==
    {Answer(200, "none", ImageManifest(MaxBaseLayers), FALSE), Answer(0, "none", NoBody, FALSE)}

\* what it answers to GET blobs/<digest>
HeldBlobAnswers(digest) ==
    {Answer(200, "none", digest.of, FALSE), Answer(0, "none", NoBody, FALSE)}

\* the file a write_bytes leaves that was stopped before the last byte
Truncated(data) == [kind |-> "partial", of |-> data, len |-> 0]

HoldingRegistryAnswers ==
    /\ pc.op = "build"
    /\ pc.req.phase = "send"
    /\ \E ans \in HeldManifestAnswers : MakeRequest(ans)
    /\ registry' = registry

\* pull_blob against that registry: body = resp.read(), then
\* dest_path.write_bytes(body)
HoldingRegistrySendsBlob ==
    /\ pc.op = "build"
    /\ pc.req.phase = "blob"
    /\ \E ans \in HeldBlobAnswers(pc.req.digest) :
          /\ wire' = Append(wire, Sent("blob", "GET", BlobUrl(pc.req.digest),
                                       BlobAuthHeader(client), ans.status, FALSE))
          /\ IF ans.status = 200
             THEN /\ out' = [out EXCEPT !.blobs = WriteBytes(@, pc.req.digest, ans.body)]
                  /\ pc' = [pc EXCEPT !.req = [phase |-> "pulled"]]
                  /\ outcome' = outcome
             ELSE Raise("URLError") /\ out' = out
    /\ UNCHANGED <<cacheVars, registry, config, inst, client, acked, built, ops>>

\* the process is stopped (KeyboardInterrupt, a signal) while write_bytes
\* of pull_blob writes: the file is there under the name of the digest and
\* holds a part of the blob
InterruptedWrite ==
    /\ pc.op = "build"
    /\ pc.req.phase = "blob"
    /\ wire' = Append(wire, Sent("blob", "GET", BlobUrl(pc.req.digest),
                                 BlobAuthHeader(client), 200, FALSE))
    /\ out' = [out EXCEPT !.blobs = WriteBytes(@, pc.req.digest, Truncated(pc.req.digest.of))]
    /\ Raise("KeyboardInterrupt")
    /\ UNCHANGED <<cacheVars, registry, config, inst, client, acked, built, ops>>

NextRebuild ==
    \/ StartBuild
    \/ HoldingRegistryAnswers
    \/ PullManifestReturns
    \/ PullBaseConfig
    \/ HoldingRegistrySendsBlob
    \/ InterruptedWrite
    \/ PullBaseLayer
    \/ AssembleImage

SpecRebuild == Init /\ [][NextRebuild]_vars

-----------------------------------------------------------------------------
(* registry_client.py: initiate_blob_upload, upload_blob_monolithic *)

\* registry.rstrip('/')
RECURSIVE RStripSlash(_)
RStripSlash(str) ==
    IF str # <<>> /\ str[Len(str)] = "/" THEN RStripSlash(SubSeq(str, 1, Len(str) - 1))
    ELSE str

\* a client that keeps the registry name as it was given
ClientRegistryAsGiven(reg) == RStripSlash(reg)

\* RegistryClient.__init__: self.registry
ClientRegistry(reg) ==
    IF RStripSlash(reg) = <<"docker", ".", "io">>
    THEN <<"registry-1", ".", "docker", ".", "io">>
    ELSE RStripSlash(reg)

\* headers.get('Location') or headers.get('location')
LocationOf(headers) ==
    IF Get(headers, "Location", <<>>) # <<>> THEN Get(headers, "Location", <<>>)
    ELSE Get(headers, "location", <<>>)

\* location.startswith('http')
StartsWithHttp(location) == location[1] \in {"http://", "https://"}

\* initiate_blob_upload once _make_request has returned: the upload URL,
\* or what is raised
initiate_blob_upload(reg, status, body, headers) ==
    IF status \notin {200, 202}
    THEN [raised |-> IF Decodes(body) THEN "RuntimeError: Failed to initiate upload"
                     ELSE "UnicodeDecodeError",
          location |-> <<>>]
    ELSE IF LocationOf(headers) = <<>>
    THEN [raised |-> "RuntimeError: No Location header in upload response",
          location |-> <<>>]
    ELSE [raised |-> "",
          location |-> IF StartsWithHttp(LocationOf(headers)) THEN LocationOf(headers)
                       ELSE <<"https://">> \o ClientRegistry(reg)
                                \o LocationOf(headers)]

\* final_url=f"{upload_url}&digest={digest}"
FinalUrl(upload_url, digest) == upload_url \o <<"&digest=", digest>>

\* upload_blob_monolithic up to its PUT: the URLs a PUT is sent to, or
\* what initiate_blob_upload raised
UploadPut(reg, status, body, headers, digest) ==
    IF initiate_blob_upload(reg, status, body, headers).raised # ""
    THEN [raised |-> initiate_blob_upload(reg, status, body, headers).raised,
          puts |-> <<>>]
    ELSE [raised |-> "",
          puts |-> <<FinalUrl(initiate_blob_upload(reg, status, body, headers).location,
                              digest)>>]

-----------------------------------------------------------------------------
(* registry_client.py: parse_image_reference *)

\* a string is a sequence of tokens: '/', ':' and '.' are tokens of their own,
\* any other token is a run of characters without them.  'x' in s
In(str, token) == \E i \in DOMAIN str : str[i] = token

FirstIndex(str, token) == CHOOSE i \in DOMAIN str : str[i] = token /\ \A j \in 1..(i - 1) : str[j] # token

LastIndex(str, token) == CHOOSE i \in DOMAIN str : str[i] = token /\ \A j \in (i + 1)..Len(str) : str[j] # token

\* s.split(sep)
RECURSIVE Split(_, _)
Split(str, sep) ==
    IF ~In(str, sep) THEN <<str>>
    ELSE <<SubSeq(str, 1, FirstIndex(str, sep) - 1)>>
             \o Split(SubSeq(str, FirstIndex(str, sep) + 1, Len(str)), sep)

\* sep.join(parts)
RECURSIVE Join(_, _)
Join(parts, sep) ==
    IF parts = <<>> THEN <<>>
    ELSE IF Len(parts) = 1 THEN parts[1]
    ELSE parts[1] \o <<sep>> \o Join(Tail(parts), sep)

\* a repository kept together with its tag
RSplitHeadWhole(str, sep) == str

\* s.rsplit(sep, 1)[0] of a string that has sep
RSplitHead(str, sep) == SubSeq(str, 1, LastIndex(str, sep) - 1)

\* the text after the first separator
SplitTailFirst(str, sep) == SubSeq(str, FirstIndex(str, sep) + 1, Len(str))

\* s.rsplit(sep, 1)[1] of a string that has sep
RSplitTail(str, sep) == SubSeq(str, LastIndex(str, sep) + 1, Len(str))

DockerIo == <<"docker", ".", "io">>

Latest == <<"latest">>

\* the branch for a reference with a '/'
ParsePath(ref, parts) ==
    LET hosted == In(parts[1], ".") \/ In(parts[1], ":")
        repo == IF hosted THEN Join(Tail(parts), "/") ELSE ref
    IN  [registry |-> IF hosted THEN parts[1] ELSE DockerIo,
         repo |-> IF In(repo, ":") THEN RSplitHead(repo, ":") ELSE repo,
         tag |-> IF In(repo, ":") THEN RSplitTail(repo, ":") ELSE Latest]

\* parse_image_reference
parse_image_reference(ref) ==
    IF ~In(ref, "/")
    THEN [registry |-> DockerIo,
          repo |-> <<"library", "/">> \o Split(ref, ":")[1],
          tag |-> IF In(ref, ":") THEN Split(ref, ":")[Len(Split(ref, ":"))] ELSE Latest]
    ELSE ParsePath(ref, Split(ref, "/"))

-----------------------------------------------------------------------------
(* framework.py: apply_framework_defaults *)

\* detect_framework: None, or (framework, entrypoint, ports)
NoDetection == [name |-> "none"]

Detections ==
    {NoDetection,
     [name |-> "FastAPI", entrypoint |-> <<"uvicorn", "main:app">>, ports |-> <<8000>>],
     [name |-> "Flask", entrypoint |-> <<"flask", "run">>, ports |-> <<5000>>],
     [name |-> "Django", entrypoint |-> <<"python", "manage.py", "runserver">>,
      ports |-> <<8000>>]}

\* if not config.entrypoint: config.entrypoint=entrypoint
DefaultEntrypoint(cfg, detection) ==
    IF cfg.entrypoint = <<>> THEN [cfg EXCEPT !.entrypoint = detection.entrypoint]
    ELSE cfg

\* if not config.exposed_ports and ports: config.exposed_ports=ports
DefaultPorts(cfg, detection) ==
    IF cfg.exposed_ports = <<>> /\ detection.ports # <<>>
    THEN [cfg EXCEPT !.exposed_ports = detection.ports]
    ELSE cfg

\* if not config.labels: config.labels={} ; config.labels["framework"]=framework.lower()
FrameworkLabel(cfg, detection) ==
    [cfg EXCEPT !.labels = DictPut(@, "framework", <<Lower(detection.name)>>)]

\* apply_framework_defaults
apply_framework_defaults(cfg, detection) ==
    IF detection = NoDetection THEN cfg
    ELSE FrameworkLabel(DefaultPorts(DefaultEntrypoint(cfg, detection), detection),
                        detection)

-----------------------------------------------------------------------------
(* oci.py and the layer writers of builder.py called on their own *)

\* Env lists of a base config: the usual one, none, a key given twice, an
\* entry without '=', a value with '=' in it
BaseEnvs ==
    {BaseSettings.Env, <<>>,
     << <<"A", "=", "1">>, <<"A", "=", "2">> >>,
     << <<"FOO">>, <<"PATH", "=", "/usr/bin">> >>,
     << <<"B", "=", "x", "=", "y">> >>}

\* Labels of a base config
BaseLabels ==
    {<<>>,
     <<[k |-> "org.opencontainers.image.base.name", v |-> <<"gcr.io/", "distroless", "/python3">>]>>,
     <<[k |-> "name", v |-> <<"DISTROLESS">>]>>,
     <<[k |-> "name", v |-> <<"python">>]>>}

\* the config object of a base image: Entrypoint, Cmd and Labels may be absent
BaseSettingsOf(env, entrypoint, cmd, labels) ==
    LET c0 == [Env |-> env, WorkingDir |-> "/"]
        c1 == IF entrypoint # <<>> THEN Put(c0, "Entrypoint", entrypoint) ELSE c0
        c2 == IF cmd # <<>> THEN Put(c1, "Cmd", cmd) ELSE c1
    IN  IF labels # <<>> THEN Put(c2, "Labels", labels) ELSE c2

BaseConfigs ==
    {[BaseConfig EXCEPT !.settings = BaseSettingsOf(env, entrypoint, cmd, labels)] :
        env \in BaseEnvs, entrypoint \in {<<>>, <<"/usr/bin/python">>},
        cmd \in {<<>>, <<"app.py">>}, labels \in BaseLabels}

\* env of the application
AppEnvs ==
    {<<>>, <<[k |-> <<"DEBUG">>, v |-> <<"true">>]>>,
     <<[k |-> <<"PATH">>, v |-> <<"/app">>]>>,
     <<[k |-> <<"A">>, v |-> <<"3">>], [k |-> <<"DEBUG">>, v |-> <<"true">>]>>}

AppEntrypoints ==
    {<<>>, <<"python", "-m", "app">>, <<"sh", "-c", "run">>, <<"/bin/bash", "run">>}

AppCmds == {<<>>, <<"serve">>}

\* calls of build_config_json
ConfigCalls ==
    {[op |-> "call", fn |-> "build_config_json", architecture |-> arch,
      app |-> AppSettings(env, "", entrypoint, <<>>, <<>>, "", cmd), base_config |-> base] :
        arch \in {"amd64", "arm64"}, env \in AppEnvs, entrypoint \in AppEntrypoints,
        cmd \in AppCmds, base \in BaseConfigs \cup {NoBaseConfig}}

\* what iter_files and find_dependencies yield for one tree at two times:
\* rglob gives the files in any order, their mtimes are what a checkout
\* or a copy left
AppListings ==
    {<<FileStat(r[1], 1, m1), FileStat(r[2], 1, m2)>> :
        r \in {<<"a", "b">>, <<"b", "a">>}, m1 \in {1, 2}, m2 \in {1, 2}}

DepsListings == {<<>>} \cup {<<FileStat("deps", 1, m)>> : m \in {1, 2}}

\* two builds of trees with the same relative paths and contents
BuildCalls ==
    {[op |-> "call", fn |-> "build", reproducible |-> r,
      first |-> [files |-> f1, deps |-> d[1]], second |-> [files |-> f2, deps |-> d[2]]] :
        r \in BOOLEAN, f1 \in AppListings, f2 \in AppListings,
        d \in {p \in DepsListings \X DepsListings : Len(p[1]) = Len(p[2])}}

\* build() without a cache: the deps layer if there are dependency files,
\* the app layer, then config and manifest over the base image
BuildImage(tree, reproducible) ==
    LET deps == IF tree.deps # <<>>
                THEN <<OCILayer("tar", Sha256(DepsTar(tree.deps)), Size(DepsTar(tree.deps)))>>
                ELSE <<>>
        data == AppLayerData(tree.files, reproducible)
        all_layers == BaseLayers(ImageManifest(1)) \o deps
                          \o <<OCILayer("tar", Sha256(data), Size(data))>>
        cfg == build_config_json("amd64", "linux", BuildSettings, BaseConfig)
        manifest == build_manifest_json(Sha256(cfg), Size(cfg), all_layers)
    IN  [layers |-> all_layers, config_digest |-> Sha256(cfg),
         manifest_digest |-> Sha256(manifest)]

\* the tokens of the references tried
RefTokens == {"/", ":", ".", "a", "b"}

\* references of the usual shapes
ExampleRefs ==
    {<<"ghcr", ".", "io", "/", "user", "/", "app", ":", "v1">>,
     <<"localhost", ":", "5000", "/", "test">>,
     <<"localhost", ":", "5000", "/", "test", ":", "latest">>,
     <<"user", "/", "app", ":", "tag">>,
     <<"python", ":", "3", ".", "11">>,
     <<"alpine">>}

\* calls of parse_image_reference: every string of up to MaxRefLen tokens
ParseCalls ==
    {[op |-> "call", fn |-> "parse_image_reference", ref |-> r] :
        r \in (UNION {[1..n -> RefTokens] : n \in 0..MaxRefLen}) \cup ExampleRefs}

\* calls of upload_blob_monolithic by what _make_request hands back for the
\* POST: the Location of a registry is a path from the root or a URL
UploadRegistries ==
    {DockerIo, <<"ghcr", ".", "io">>, <<"localhost", ":", "5000">>, <<"ghcr", ".", "io", "/">>}

RelativeLocation == <<"/", "v2", "/", "app", "/", "blobs", "/", "uploads", "/", "id", "?", "state">>

AbsoluteLocation == <<"https://", "store", ".", "io">> \o RelativeLocation

PostHeaders ==
    {[k \in {} |-> <<>>]}
        \cup {[k \in {name} |-> loc] : name \in {"Location", "location"},
                                        loc \in {<<>>, RelativeLocation, AbsoluteLocation}}

UploadCalls ==
    {[op |-> "call", fn |-> "upload_blob_monolithic", registry |-> r, status |-> st,
      body |-> b, headers |-> h, digest |-> "sha256:abc"] :
        r \in UploadRegistries, st \in {200, 201, 202, 404, 500},
        b \in {NoBody, ErrorJson, NotUtf8}, h \in PostHeaders}

\* two builds one after the other on one cache directory, each with its
\* context and its reproducible flag
SharedCacheCalls ==
    {[op |-> "call", fn |-> "create_app_layer", first |-> b1, second |-> b2] :
        b1, b2 \in {[files |-> f, reproducible |-> r] : f \in FileLists, r \in BOOLEAN}}

\* what a file of the context can be: sizes of one and of two digits, mtimes
\* (whole seconds, as int(st_mtime) gives them) of one width
ContextStats == {FileStat(rel, size, mtime) : rel \in {"a", "a1", "b"}, size \in {1, 11}, mtime \in {1, 2}}

\* file lists of one or two files with different paths
ContextListings ==
    {<<f>> : f \in ContextStats}
        \cup {<<f, g>> : f \in {h \in ContextStats : h.rel # "b"},
                          g \in {h \in ContextStats : h.rel = "b"}}

\* a layer is stored for one file list and looked up for another
LookupCalls ==
    {[op |-> "call", fn |-> "get_layer", stored |-> f1, files |-> f2] :
        f1 \in ContextListings, f2 \in ContextListings}

\* labels of a build config: none, another key, the framework key, both
ConfigLabels ==
    {<<>>,
     <<[k |-> "team", v |-> <<"x">>]>>,
     <<[k |-> "framework", v |-> <<"custom">>]>>,
     <<[k |-> "framework", v |-> <<"custom">>], [k |-> "team", v |-> <<"x">>]>>}

\* calls of apply_framework_defaults on a config and what detect_framework finds
FrameworkCalls ==
    {[op |-> "call", fn |-> "apply_framework_defaults", detection |-> d,
      config |-> AppSettings(<<>>, "/app", entrypoint, ports, labels, "", cmd)] :
        d \in Detections, entrypoint \in {<<>>, <<"python", "-m", "app">>},
        ports \in {<<>>, <<8080>>}, labels \in ConfigLabels, cmd \in AppCmds}

InitPure ==
    /\ lastCall \in ConfigCalls \cup BuildCalls \cup ParseCalls \cup LookupCalls
                    \cup FrameworkCalls \cup UploadCalls \cup SharedCacheCalls
    /\ cache = NewCache(FALSE, 0)
    /\ now = 0
    /\ cacheOps = 0
    /\ NoBuilder

CallBuildConfigJson ==
    /\ lastCall.op = "call"
    /\ lastCall.fn = "build_config_json"
    /\ lastCall' = [op |-> "returned", fn |-> lastCall.fn, app |-> lastCall.app,
                    base_config |-> lastCall.base_config,
                    architecture |-> lastCall.architecture,
                    cfg |-> build_config_json(lastCall.architecture, "linux",
                                              lastCall.app, lastCall.base_config),
                    base_after |-> BaseConfigAfter(lastCall.architecture, "linux",
                                                   lastCall.app, lastCall.base_config)]
    /\ UNCHANGED <<cache, now, cacheOps, builderVars>>

CallBuild ==
    /\ lastCall.op = "call"
    /\ lastCall.fn = "build"
    /\ lastCall' = [op |-> "returned", fn |-> lastCall.fn,
                    reproducible |-> lastCall.reproducible,
                    first |-> lastCall.first, second |-> lastCall.second,
                    images |-> <<BuildImage(lastCall.first, lastCall.reproducible),
                                 BuildImage(lastCall.second, lastCall.reproducible)>>]
    /\ UNCHANGED <<cache, now, cacheOps, builderVars>>

CallParseImageReference ==
    /\ lastCall.op = "call"
    /\ lastCall.fn = "parse_image_reference"
    /\ lastCall' = [op |-> "returned", fn |-> lastCall.fn, ref |-> lastCall.ref,
                    parsed |-> parse_image_reference(lastCall.ref)]
    /\ UNCHANGED <<cache, now, cacheOps, builderVars>>

\* store_layer(stored, ...) on a new cache, then get_layer(files)
CallGetLayerAfterStore ==
    /\ lastCall.op = "call"
    /\ lastCall.fn = "get_layer"
    /\ lastCall' = [op |-> "returned", fn |-> lastCall.fn, stored |-> lastCall.stored,
                    files |-> lastCall.files,
                    digests |-> <<compute_files_digest(lastCall.stored),
                                  compute_files_digest(lastCall.files)>>,
                    ret |-> get_layer(store_layer(NewCache(TRUE, BuilderCacheSize),
                                                  lastCall.stored, Sha256(Bytes(1, 2)),
                                                  Bytes(1, 2), 0, 0),
                                      lastCall.files, 0).ret]
    /\ UNCHANGED <<cache, now, cacheOps, builderVars>>

CallApplyFrameworkDefaults ==
    /\ lastCall.op = "call"
    /\ lastCall.fn = "apply_framework_defaults"
    /\ lastCall' = [op |-> "returned", fn |-> lastCall.fn, detection |-> lastCall.detection,
                    before |-> lastCall.config,
                    config |-> apply_framework_defaults(lastCall.config, lastCall.detection)]
    /\ UNCHANGED <<cache, now, cacheOps, builderVars>>

\* upload_blob_monolithic from the answer to its POST on
CallUploadBlobMonolithic ==
    /\ lastCall.op = "call"
    /\ lastCall.fn = "upload_blob_monolithic"
    /\ lastCall' = [op |-> "returned", fn |-> lastCall.fn, registry |-> lastCall.registry,
                    status |-> lastCall.status, headers |-> lastCall.headers,
                    digest |-> lastCall.digest,
                    ret |-> UploadPut(lastCall.registry, lastCall.status, lastCall.body,
                                      lastCall.headers, lastCall.digest)]
    /\ UNCHANGED <<cache, now, cacheOps, builderVars>>

\* _create_app_layer of one build, then of another on the cache it left
CallCreateAppLayerTwice ==
    /\ lastCall.op = "call"
    /\ lastCall.fn = "create_app_layer"
    /\ LET b1 == lastCall.first
           b2 == lastCall.second
           after == create_app_layer(NewCache(TRUE, BuilderCacheSize), b1.files,
                                     b1.reproducible, 1).cache
       IN  lastCall' = [op |-> "returned", fn |-> lastCall.fn, first |-> b1, second |-> b2,
                        data |-> create_app_layer(after, b2.files, b2.reproducible, 2).data]
    /\ UNCHANGED <<cache, now, cacheOps, builderVars>>

NextPure ==
    \/ CallCreateAppLayerTwice
    \/ CallUploadBlobMonolithic
    \/ CallBuildConfigJson
    \/ CallBuild
    \/ CallParseImageReference
    \/ CallGetLayerAfterStore
    \/ CallApplyFrameworkDefaults

SpecPure == InitPure /\ [][NextPure]_vars

-----------------------------------------------------------------------------
(* Two builders on one cache directory *)

\* the ImageBuilder processes that were given the same cache_dir
Builders == {1, 2}

\* no LayerCache has been made yet
Unopened == [at |-> "new"]

\* between two calls of _create_app_layer
Ready == [at |-> "idle"]

\* the directory after builder b's handle went from caches[b] to c2: blobs/
\* and index.json are the same files for every handle, the index in memory
\* is each handle's own
OnSharedDir(caches, b, c2) ==
    [x \in Builders |->
        IF x = b THEN c2
        ELSE [caches[x] EXCEPT !.blobs = c2.blobs, !.saved = c2.saved,
                               !.index_file = c2.index_file]]

InitShared ==
    /\ \E max \in MaxSizes : cache = [b \in Builders |-> NewCache(TRUE, max)]
    /\ pc = [b \in Builders |-> Unopened]
    /\ out = [b \in Builders |-> {}]
    /\ now = 0
    /\ cacheOps = 0
    /\ lastCall = NoCall
    /\ config = [dry_run |-> TRUE]
    /\ inst = [has_manifest_digest |-> FALSE]
    /\ client = NoClient
    /\ wire = <<>>
    /\ acked = {}
    /\ outcome = NoOutcome
    /\ built = FALSE
    /\ ops = 0
    /\ registry = EmptyRegistry

sharedFrame == <<lastCall, config, inst, client, wire, acked, outcome, built, ops, registry>>

\* ImageBuilder(config): LayerCache(cache_dir) reads index.json as it is now
OpenCache(b) ==
    /\ pc[b].at = "new"
    /\ cache' = [cache EXCEPT ![b] = Reopened(cache[b])]
    /\ pc' = [pc EXCEPT ![b] = Ready]
    /\ UNCHANGED <<out, now, cacheOps, sharedFrame>>

\* _create_app_layer up to the return of self.cache.get_layer(files)
LookupLayer(b) ==
    /\ pc[b].at = "idle"
    /\ cacheOps < MaxCacheOps
    /\ \E files \in FileLists : \E t \in Readings(now) :
          /\ cache' = OnSharedDir(cache, b, get_layer(cache[b], files, t).cache)
          /\ now' = t
          /\ pc' = [pc EXCEPT ![b] =
                      IF get_layer(cache[b], files, t).ret.hit
                      THEN [at |-> "hit", files |-> files,
                            digest |-> get_layer(cache[b], files, t).ret.digest]
                      ELSE [at |-> "miss", files |-> files]]
    /\ cacheOps' = cacheOps + 1
    /\ UNCHANGED <<out, sharedFrame>>

\* if not final.exists(): shutil.copy2(cache_path, final)
CopyCached(b) ==
    /\ pc[b].at = "hit"
    /\ IF Exists(out[b], pc[b].digest)
       THEN /\ pc' = [pc EXCEPT ![b].at = "copied"]
            /\ out' = out
       ELSE IF Exists(cache[b].blobs, pc[b].digest)
       THEN /\ pc' = [pc EXCEPT ![b].at = "copied"]
            /\ out' = [out EXCEPT ![b] = WriteBytes(out[b], pc[b].digest,
                                             ReadBytes(cache[b].blobs, pc[b].digest))]
       ELSE /\ pc' = [pc EXCEPT ![b] = [at |-> "failed", error |-> "FileNotFoundError",
                                        in |-> "copy2", files |-> pc[b].files]]
            /\ out' = out
    /\ UNCHANGED <<cache, now, cacheOps, sharedFrame>>

\* return OCILayer(..., cache_path.stat().st_size, str(final))
StatCached(b) ==
    /\ pc[b].at = "copied"
    /\ pc' = [pc EXCEPT ![b] =
                IF Exists(cache[b].blobs, pc[b].digest) THEN Ready
                ELSE [at |-> "failed", error |-> "FileNotFoundError",
                      in |-> "stat", files |-> pc[b].files]]
    /\ UNCHANGED <<cache, out, now, cacheOps, sharedFrame>>

\* _create_app_layer after a miss: the tar is written into the output and
\* handed to store_layer
WriteAndStore(b) ==
    /\ pc[b].at = "miss"
    /\ \E t \in Readings(now) :
          /\ cache' = OnSharedDir(cache, b,
                          store_layer(cache[b], pc[b].files,
                                      Sha256(AppLayerData(pc[b].files, TRUE)),
                                      AppLayerData(pc[b].files, TRUE), t, t))
          /\ now' = t
    /\ out' = [out EXCEPT ![b] = WriteBytes(out[b], Sha256(AppLayerData(pc[b].files, TRUE)),
                                            AppLayerData(pc[b].files, TRUE))]
    /\ pc' = [pc EXCEPT ![b] = Ready]
    /\ UNCHANGED <<cacheOps, sharedFrame>>

NextShared ==
    \E b \in Builders :
        \/ OpenCache(b)
        \/ LookupLayer(b)
        \/ CopyCached(b)
        \/ StatCached(b)
        \/ WriteAndStore(b)

SpecShared == InitShared /\ [][NextShared]_vars

-----------------------------------------------------------------------------
(* Properties of the cache *)

RECURSIVE DiskTotal(_)
DiskTotal(dir) ==
    IF dir = {} THEN 0
    ELSE LET f == CHOOSE g \in dir : TRUE IN Size(f.data) + DiskTotal(dir \ {f})

\* the entries the latest store_layer evicted
Evicted == {lastCall.stored[i] : i \in 1..Len(lastCall.stored)}
               \ {cache.index[i] : i \in 1..Len(cache.index)}

Entries(index) == {index[i] : i \in 1..Len(index)}

\* C7: store_layer(files, d, tar) immediately followed by get_layer(files), the
\* files unchanged, returns a hit with digest d and a path holding the stored
\* bytes, for any max size and any prior cache content.
C7_StoreThenGetHits ==
    (lastCall.op = "get" /\ lastCall.after.op = "store"
        /\ lastCall.after.files = lastCall.files)
    => /\ lastCall.ret.hit
       /\ lastCall.ret.digest = lastCall.after.digest
       /\ lastCall.ret.data = lastCall.after.data

\* C8: whenever store_layer has returned, the blob files on disk total at most
\* max_size_bytes, and no blob of an entry it evicted remains on disk.
C8_DiskWithinLimit ==
    lastCall.op = "store"
    => /\ DiskTotal(cache.blobs) <= cache.max_size_bytes
       /\ \A e \in Evicted : ~Exists(cache.blobs, e.digest)

\* C9: eviction runs only when the recorded total exceeds max_size_bytes; it
\* removes the shortest prefix, in ascending last_used order, that brings the
\* total to at most 80% of max_size_bytes; an entry is evicted only if every
\* entry with a smaller last_used is evicted too; a hit gives its entry a
\* last_used no other entry exceeds, which puts it behind the entries not used
\* since.
C9_EvictsLruPrefix ==
    /\ lastCall.op = "store" =>
         LET pre == lastCall.stored
             total == SumSizes(pre) IN
         /\ Evicted # {} => total > cache.max_size_bytes
         /\ total <= cache.max_size_bytes => cache.index = pre
         /\ total > cache.max_size_bytes =>
              /\ AtMostEightyPercent(SumSizes(cache.index), cache.max_size_bytes)
              /\ \E e \in Evicted :
                    /\ \A x \in Evicted : x.last_used <= e.last_used
                    /\ ~AtMostEightyPercent(SumSizes(cache.index) + e.size,
                                            cache.max_size_bytes)
         /\ \A e \in Evicted : \A x \in Entries(pre) :
               x.last_used < e.last_used => x \in Evicted
         /\ cache.index = SelectSeq(pre, LAMBDA x : x \notin Evicted)
    /\ (lastCall.op = "get" /\ lastCall.ret.hit) =>
         LET hit == Entry(cache.index, compute_files_digest(lastCall.files)) IN
         /\ hit.last_used = now
         /\ \A x \in Entries(cache.index) : x.last_used <= hit.last_used

\* C9: a store evicts an entry and keeps an older-stored one that a hit refreshed
C9_Witness ==
    /\ lastCall.op = "store"
    /\ \E e \in Evicted : \E x \in Entries(cache.index) :
          /\ x.created < e.created
          /\ x.last_used > e.last_used
          /\ x.key # compute_files_digest(lastCall.files)

-----------------------------------------------------------------------------
(* Properties of the registry client and the builder *)

IsRegistrySend(e) == e.kind \in {"send", "retry"}

IsManifestPut(e) == IsRegistrySend(e) /\ e.method = "PUT" /\ e.target.kind = "manifest"

IsUpload(e) == IsRegistrySend(e) /\ e.target.kind \in {"uploads", "upload"}

IsHead(e) == IsRegistrySend(e) /\ e.method = "HEAD"

ManifestPuts == {j \in DOMAIN wire : IsManifestPut(wire[j])}

Heads == {j \in DOMAIN wire : IsHead(wire[j])}

Max(S) == CHOOSE j \in S : \A k \in S : k <= j

PushRan == outcome.op = "push" /\ inst.has_manifest_digest

\* C1: during a push, a manifest PUT is on the wire only when every layer
\* of self.layers and the config blob has been acknowledged by the registry
\* in this push (HEAD answered 200 or upload PUT answered 201/202); a push
\* that raised in a blob step has sent no manifest PUT.
C1_ManifestAfterBlobs ==
    PushRan =>
        /\ ManifestPuts # {} => \A k \in DOMAIN PushBlobs : PushBlobs[k] \in acked
        /\ (outcome.result = "error" /\ outcome.at \in {"head", "post", "put"})
               => ManifestPuts = {}

C1_Witness ==
    /\ PushRan
    /\ outcome.result = "ok"
    /\ \E j \in ManifestPuts : wire[j].status = 201
    /\ Len(PushBlobs) >= 3
    /\ \A k \in DOMAIN PushBlobs : PushBlobs[k] \in acked

\* C2: a _make_request call is one send, at most one token exchange right
\* after a 401 to that send, and at most one retry right after a granted
\* token; nothing follows a retry within the call, so a 401 to the retry goes
\* back to the caller, and no target is sent to more than twice.
C2_OneExchangeOneRetry ==
    /\ \A j \in DOMAIN wire :
          /\ wire[j].kind = "token" =>
                j > 1 /\ wire[j - 1].kind = "send" /\ wire[j - 1].status = 401
          /\ wire[j].kind = "retry" =>
                /\ j > 2
                /\ wire[j - 1].kind = "token" /\ wire[j - 1].token
                /\ wire[j - 2].kind = "send"
                /\ wire[j - 2].method = wire[j].method
                /\ wire[j - 2].target = wire[j].target
          /\ (wire[j].kind = "retry" /\ j < Len(wire)) => wire[j + 1].kind = "send"
    /\ \A m \in {"GET", "HEAD", "POST", "PUT"} :
          /\ Cardinality({j \in DOMAIN wire : IsRegistrySend(wire[j]) /\ wire[j].method = m}) <= 2
          /\ Cardinality({j \in DOMAIN wire : wire[j].kind = "retry" /\ wire[j].method = m}) <= 1
    /\ (pc.op # "idle" /\ pc.req.phase = "returned" /\ wire # <<>>
            /\ wire[Len(wire)].kind = "retry")
           => pc.req.status = wire[Len(wire)].status

C2_Witness ==
    /\ pc.op # "idle"
    /\ pc.req.phase = "returned"
    /\ pc.req.status = 401
    /\ wire # <<>>
    /\ wire[Len(wire)].kind = "retry"
    /\ wire[Len(wire)].status = 401

Uploads == {j \in DOMAIN wire : IsUpload(wire[j])}

\* every POST and upload PUT of a blob step comes after a HEAD of the step,
\* the upload PUT names the digest of that HEAD, and the answer blob_exists
\* got for the HEAD (the last one, if the HEAD was re-sent) was not 200
HeadBeforeUpload ==
    \A j \in Uploads :
        /\ \E k \in Heads : k < j
        /\ wire[Max(Heads)].status # 200
        /\ wire[j].target.kind = "upload"
               => wire[j].target.digest = wire[Max(Heads)].target.digest

\* a blob step of push() is over and the next step begins
StepDone == pc.op = "push" /\ pc'.op = "push" /\ pc'.i = pc.i + 1

\* the step skipped the upload after a 200 and went through an accepted POST
\* and an accepted PUT of the blob otherwise
UploadedIffAbsent ==
    /\ Heads # {}
    /\ IF wire[Max(Heads)].status = 200
       THEN Uploads = {}
       ELSE /\ \E j \in Uploads : wire[j].method = "POST" /\ wire[j].status \in {200, 202}
            /\ \E j \in Uploads : /\ wire[j].method = "PUT"
                                  /\ wire[j].target = UploadUrl(PushBlobs[pc.i])
                                  /\ wire[j].status \in {201, 202}

\* the statement of C3 as far as one state shows it: a HEAD before the
\* upload of a blob, no upload after a HEAD answered 200, and exactly one
\* manifest PUT on the wire of a push that succeeded
C3_OneManifestPut ==
    PushRan =>
        /\ HeadBeforeUpload
        /\ outcome.result = "ok" => Cardinality(ManifestPuts) = 1

\* C3 (amended): for each blob of a push a HEAD is sent before any POST/PUT
\* for it, and the blob is uploaded (POST, then PUT) if and only if the
\* answer to the HEAD, as blob_exists gets it, is not 200; a push that
\* succeeded has made one push_manifest call, whose PUT was sent once, or
\* twice when the first PUT was answered 401 and a token was obtained, and
\* whose last PUT was answered 200 or 201.
C3_HeadThenUploadIffAbsent ==
    /\ [](PushRan =>
            /\ HeadBeforeUpload
            /\ outcome.result = "ok" =>
                  /\ ManifestPuts # {}
                  /\ Cardinality(ManifestPuts) <= 2
                  /\ Cardinality({j \in ManifestPuts : wire[j].kind = "send"}) = 1
                  /\ wire[Max(ManifestPuts)].status \in {200, 201}
                  /\ Cardinality(ManifestPuts) = 2 =>
                        /\ wire[Max(ManifestPuts)].kind = "retry"
                        /\ \E j \in ManifestPuts : wire[j].status = 401)
    /\ [][StepDone => UploadedIffAbsent]_vars

C3_Witness ==
    /\ PushRan
    /\ outcome.result = "ok"
    /\ Cardinality(ManifestPuts) = 2

\* the blobs the manifest of index.json refers to: its config and layers
Referenced ==
    LET manifest == ReadBytes(out.blobs, out.index[1].digest)
    IN  {manifest.config.digest} \cup {manifest.layers[i].digest : i \in DOMAIN manifest.layers}

BuildSucceeded == outcome.op = "build" /\ outcome.result = "ok" /\ outcome.at # "dry_run"

\* C4: after a successful build every blob file the manifest refers to,
\* pulled base config and base layers included, is named by the SHA-256 of
\* its contents, and no file of blobs/sha256 holds bytes of another digest.
C4_BlobNamesAreDigests ==
    /\ BuildSucceeded =>
          \A d \in Referenced : Exists(out.blobs, d) /\ Sha256(ReadBytes(out.blobs, d)) = d
    /\ \A f \in out.blobs : Sha256(f.data) = f.name

\* C5: after a successful build the manifest descriptor of index.json, the
\* config descriptor and every layer descriptor of that manifest refer to
\* files that exist in blobs/sha256.
C5_DescriptorsExist ==
    BuildSucceeded =>
        /\ out.index # <<>>
        /\ out.index[1].digest = inst.manifest_digest
        /\ Exists(out.blobs, out.index[1].digest)
        /\ \A d \in Referenced : Exists(out.blobs, d)
        /\ \A i \in DOMAIN inst.layers : inst.layers[i].digest \in Referenced

\* the application layer came from the cache: this configuration cannot
\* build one
C5_Witness ==
    /\ BuildSucceeded
    /\ config.reproducible = "unset"
    /\ Sha256(AppLayerData(ContextFiles, TRUE)) \in Referenced
    /\ Cardinality(Referenced) = MaxBaseLayers + 2

\* C6: a push succeeds only on an instance whose build() has completed
\* successfully; on any other instance it ends in the usage error and has
\* sent nothing.
C6_PushNeedsBuild ==
    outcome.op = "push" =>
        /\ outcome.result = "ok" => built
        /\ ~built => /\ outcome.result = "error"
                     /\ outcome.error = "RuntimeError: Must call build() before push()"
                     /\ wire = <<>>

\* C10: once the token service has granted a token the client holds it for
\* the rest of the operation; every request the client then sends to the
\* registry, blob GETs included, carries it as Authorization: Bearer, and
\* the client asks for no second token. (The request that follows a
\* redirect goes to the storage service, not to the registry.)
C10_CachedTokenSent ==
    /\ [](\A j \in DOMAIN wire :
            /\ (wire[j].cached /\ wire[j].kind \in {"send", "retry", "blob"})
                   => wire[j].auth = "bearer_exchanged"
            /\ wire[j].cached => wire[j].kind # "token"
            /\ (wire[j].kind = "token" /\ wire[j].token) =>
                   /\ \A k \in DOMAIN wire : k > j => wire[k].cached
                   /\ j = Len(wire) => client.bearer)
    /\ [][(pc.op # "idle" /\ client.bearer) => client'.bearer]_vars

C10_Witness ==
    \E j \in DOMAIN wire :
        /\ wire[j].kind = "blob"
        /\ wire[j].cached
        /\ wire[j].auth = "bearer_exchanged"
        /\ wire[j].status = 200

\* the last request on the wire
Last == wire[Len(wire)]

\* C11: a request sent with a cached bearer token and answered 401 with a
\* Bearer challenge is not handed back to the caller as it is: the client
\* asks the token service again and retries the request.
C11_ReacquiresOn401 ==
    (pc.op # "idle" /\ pc.req.phase = "returned" /\ wire # <<>>)
        => ~(/\ Last.kind = "send"
             /\ Last.cached
             /\ Last.status = 401
             /\ pc.req.status = 401
             /\ pc.req.challenge = "bearer")

\* C12: once the token service has failed to give a token, the operation
\* sends nothing more to the registry and ends in an error; the 401 of a
\* HEAD is not read as the blob being absent.
C12_FailedExchangeEndsOperation ==
    \A j \in DOMAIN wire :
        (wire[j].kind = "token" /\ ~wire[j].token) =>
            /\ j = Len(wire)
            /\ pc.op = "idle" => outcome.result = "error"

\* C13: the request pull_blob sends to the Location of a 3xx carries no
\* Authorization header, the first request carries the credentials the
\* client holds, and pull_blob has written the file only when the last
\* answer was a 200.
C13_NoAuthOnRedirect ==
    /\ \A j \in DOMAIN wire :
          /\ wire[j].kind = "redirect" => wire[j].auth = "none"
          /\ (wire[j].kind = "blob" /\ (wire[j].cached \/ client.auth_token))
                 => wire[j].auth \in {"bearer_exchanged", "bearer_supplied"}
    /\ (pc.op = "build" /\ pc.req.phase = "pulled") => Last.status = 200

\* a call of build_config_json with a base config that has returned
Merged ==
    /\ lastCall.op = "returned"
    /\ lastCall.fn = "build_config_json"
    /\ lastCall.base_config # NoBaseConfig

\* the key of an Env entry: what stands before its first '='
KeyOf(kv) == IF HasEquals(kv) THEN SplitKey(kv) ELSE kv

Range(seq) == {seq[i] : i \in DOMAIN seq}

\* C17: in the merged config every Env entry of the base appears unchanged
\* unless its key is a key of the application's env, and every key of the
\* application's env appears exactly once, with the application's value.
C17_BaseEnvKept ==
    Merged =>
        LET Env == lastCall.cfg.settings.Env
            base == lastCall.base_config.settings.Env
            env == lastCall.app.env
        IN  /\ \A i \in DOMAIN base :
                  KeyOf(base[i]) \notin DictKeys(env) => base[i] \in Range(Env)
            /\ \A j \in DOMAIN env :
                  /\ Cardinality({i \in DOMAIN Env : KeyOf(Env[i]) = env[j].k}) = 1
                  /\ FormatEnv(env[j].k, env[j].v) \in Range(Env)

\* C18: with an application entrypoint, a distroless base and a shell as
\* entrypoint[0] give Cmd = the application's entrypoint and Entrypoint = the
\* base's Entrypoint; every other case gives Entrypoint = the application's
\* entrypoint and Cmd = the application's cmd if set, else the base's Cmd.
C18_DistrolessDemotion ==
    (Merged /\ lastCall.app.entrypoint # <<>>) =>
        LET merged == lastCall.cfg.settings
            base == lastCall.base_config.settings
            app == lastCall.app
        IN  IF is_distroless(lastCall.base_config) /\ app.entrypoint[1] \in Shells
            THEN /\ Get(merged, "Cmd", <<>>) = app.entrypoint
                 /\ Get(merged, "Entrypoint", <<>>) = Get(base, "Entrypoint", <<>>)
            ELSE /\ Get(merged, "Entrypoint", <<>>) = app.entrypoint
                 /\ Get(merged, "Cmd", <<>>) =
                        IF app.cmd # <<>> THEN app.cmd ELSE Get(base, "Cmd", <<>>)

\* two builds of one tree that have returned
BuiltTwice == lastCall.op = "returned" /\ lastCall.fn = "build"

\* C16: with reproducible mode on, two builds over trees with the same
\* relative paths and contents give the same layer digests (the dependency
\* layer included), the same config digest and the same manifest digest,
\* whatever the mtimes and the order of enumeration.
C16_ReproducibleDigests ==
    (BuiltTwice /\ lastCall.reproducible) => lastCall.images[1] = lastCall.images[2]

\* "<os>/<arch>": two segments that are not empty
ValidPlatform(p) == Len(p) = 3 /\ p[1] # "/" /\ p[2] = "/" /\ p[3] # "/"

\* a platform is configured and is not of that form
PlatformRefused == Has(config, "platform") /\ ~ValidPlatform(config.platform)

\* the platform a build is for: the configured one, linux/amd64 by default
TargetPlatform ==
    IF Has(config, "platform")
    THEN [architecture |-> config.platform[3], os |-> config.platform[1]]
    ELSE [architecture |-> "amd64", os |-> "linux"]

\* the requests for a manifest by digest among the requests of the step
ByDigest == {j \in DOMAIN wire : IsRegistrySend(wire[j]) /\ wire[j].target.kind = "manifest"
                                    /\ "digest" \in DOMAIN wire[j].target}

\* C19: when the base reference resolves to an index, the manifest pulled
\* again is the entry for the configured target platform, and when no entry
\* matches the build fails with a platform-mismatch error (before any config
\* or layer blob is requested).
C19_SelectsTargetPlatform ==
    /\ (pc.op = "build" /\ pc.phase = "manifest2" /\ ~PlatformRefused) =>
           \A j \in ByDigest :
               wire[j].target.digest = Sha256(PlatformManifest(TargetPlatform.architecture))
    /\ (outcome.op = "build" /\ outcome.result = "error" /\ outcome.at = "manifest"
            /\ outcome.error \notin {"RuntimeError: request failed",
                                     "RuntimeError: failed to pull manifest",
                                     "RuntimeError: empty response body",
                                     "RuntimeError: invalid JSON", "TypeError"})
           => outcome.error = "PlatformMismatch"

\* C20: a built image carries the configured platform: the manifest
\* descriptor of index.json has it as platform, and the config blob has its
\* architecture and os.
C20_ImageCarriesPlatform ==
    (BuildSucceeded /\ ~PlatformRefused) =>
        /\ out.index[1].platform = TargetPlatform
        /\ ReadBytes(out.blobs, inst.config_digest).architecture = TargetPlatform.architecture
        /\ ReadBytes(out.blobs, inst.config_digest).os = TargetPlatform.os

\* the manifest blob of the image just built
BuiltManifest == ReadBytes(out.blobs, inst.manifest_digest)

\* the digests an app layer of the context can have
AppLayerDigests == {Sha256(AppLayerData(ContextFiles, r)) : r \in BOOLEAN}

Pushed == registry.manifests # <<>>

\* C14: once a push() has succeeded, a further push() of the same builder to
\* the same target, against a registry that kept the blobs, has every HEAD
\* answered 200 and uploads no blob, PUTs the same manifest bytes under the
\* tag, returns normally, and leaves the blobs of the registry as they were.
C14_RepushIdempotent ==
    [][Pushed =>
          /\ registry'.blobs = registry.blobs
          /\ registry'.manifests \in {registry.manifests,
                                      Append(registry.manifests, registry.manifests[1])}
          /\ \A j \in DOMAIN wire' :
                /\ IsHead(wire'[j]) => wire'[j].status = 200
                /\ ~IsUpload(wire'[j])
          /\ (pc' = Idle /\ outcome'.op = "push") => outcome'.result = "ok"]_vars

\* a second push() has returned normally: the registry took the manifest twice
C14_Witness ==
    /\ Len(registry.manifests) = 2
    /\ pc = Idle
    /\ outcome.op = "push"
    /\ outcome.result = "ok"
    /\ ops = 2

-----------------------------------------------------------------------------
(* Properties of parse_image_reference *)

ParseReturned == lastCall.op = "returned" /\ lastCall.fn = "parse_image_reference"

\* host/repo:tag
Render(p) == p.registry \o <<"/">> \o p.repo \o <<":">> \o p.tag

\* C22: canonicalization is idempotent: rendering the parsed (host, repo, tag)
\* of any reference as host/repo:tag and parsing that again gives the same
\* (host, repo, tag).
C22_CanonIdempotent ==
    ParseReturned => parse_image_reference(Render(lastCall.parsed)) = lastCall.parsed

\* a reference with a host of its own and a tag has been parsed
C22_Witness ==
    /\ ParseReturned
    /\ lastCall.parsed.registry # DockerIo
    /\ lastCall.parsed.tag # Latest
    /\ lastCall.parsed.repo # <<>>
    /\ Render(lastCall.parsed) = lastCall.ref

Colons(str) == Cardinality({i \in DOMAIN str : str[i] = ":"})

\* str = head ++ ":" ++ tail with no ':' in tail
CutAtLastColon(str, head, tail) == str = head \o <<":">> \o tail /\ ~In(tail, ":")

\* the text after the first '/'
AfterFirstSlash(str) ==
    LET i == CHOOSE i \in DOMAIN str : str[i] = "/" /\ \A j \in 1..(i - 1) : str[j] # "/"
    IN  SubSeq(str, i + 1, Len(str))

\* the first path segment
FirstSegment(str) ==
    LET i == CHOOSE i \in DOMAIN str : str[i] = "/" /\ \A j \in 1..(i - 1) : str[j] # "/"
    IN  SubSeq(str, 1, i - 1)

\* C23: for a reference with a '/', the first path segment is the host iff
\* it contains '.' or ':', and otherwise the host is docker.io and the whole
\* path is the repository part; a bare name is placed under library/ on
\* docker.io; the tag is the text after the last ':' of the repository part,
\* latest when there is none, and the repository is the text before it (for a
\* bare name: when the name has one ':' at most).
C23_HostRepoTag ==
    ParseReturned =>
        LET r == lastCall.ref
            p == lastCall.parsed
            bare == ~In(r, "/")
            hosted == ~bare /\ (In(FirstSegment(r), ".") \/ In(FirstSegment(r), ":"))
            part == IF hosted THEN AfterFirstSlash(r) ELSE r
            under == IF bare THEN <<"library", "/">> ELSE <<>>
        IN  /\ p.registry = IF hosted THEN FirstSegment(r) ELSE DockerIo
            /\ IF In(part, ":")
               THEN \E i \in DOMAIN part :
                       /\ CutAtLastColon(part, SubSeq(part, 1, i - 1), p.tag)
                       /\ (bare /\ Colons(r) > 1) \/ p.repo = under \o SubSeq(part, 1, i - 1)
               ELSE p.tag = Latest /\ p.repo = under \o part
            /\ bare => SubSeq(p.repo, 1, 2) = <<"library", "/">>

\* a path whose first segment is no host, with a tag, has been parsed
C23_Witness ==
    /\ ParseReturned
    /\ lastCall.ref = <<"user", "/", "app", ":", "tag">>
    /\ lastCall.parsed = [registry |-> DockerIo, repo |-> <<"user", "/", "app">>,
                          tag |-> <<"tag">>]

-----------------------------------------------------------------------------
(* Properties of the cache fingerprint *)

LookupReturned == lastCall.op = "returned" /\ lastCall.fn = "get_layer"

\* relative path, size and whole-second mtime of every file of a list
Stats(files) == {<<files[i].rel, files[i].size, files[i].mtime>> : i \in DOMAIN files}

\* C24: a lookup misses whenever the input changed: two file lists that
\* differ in the set of relative paths, or in the size or the mtime (in whole
\* seconds) of a file, have different fingerprints, and get_layer for one
\* does not return the layer stored for the other.
C24_ChangedInputMisses ==
    (LookupReturned /\ Stats(lastCall.stored) # Stats(lastCall.files)) =>
        /\ lastCall.digests[1] # lastCall.digests[2]
        /\ ~lastCall.ret.hit

-----------------------------------------------------------------------------
(* Properties of get_layer *)

\* a get_layer call returns
GetLayerStep == lastCall'.op = "get" /\ cacheOps' = cacheOps + 1

\* C25: get_layer returns a hit only if the fingerprint is in the index and
\* the blob of its entry is on disk at the call; when the fingerprint is in
\* the index and the blob is missing it returns a miss, takes that entry out
\* of the index and saves the index, and every other entry stays as it was.
C25_StaleEntryRepaired ==
    [][GetLayerStep =>
          LET key == compute_files_digest(lastCall'.files)
              present == key \in Keys(cache.index)
                            /\ Exists(cache.blobs, Entry(cache.index, key).digest)
          IN  /\ lastCall'.ret.hit => present
              /\ (key \in Keys(cache.index) /\ ~present) =>
                    /\ ~lastCall'.ret.hit
                    /\ Keys(cache'.index) = Keys(cache.index) \ {key}
                    /\ \A k \in Keys(cache'.index) : Entry(cache'.index, k) = Entry(cache.index, k)
                    /\ load_index(cache') = cache'.index
                    /\ cache'.blobs = cache.blobs]_vars

\* a lookup found its fingerprint in the index without the blob, and other
\* entries were in the index
C25_Witness ==
    /\ lastCall.op = "get"
    /\ lastCall.found
    /\ ~lastCall.ret.hit
    /\ compute_files_digest(lastCall.files) \notin Keys(cache.index)
    /\ cache.index # <<>>

-----------------------------------------------------------------------------
(* Properties of apply_framework_defaults *)

\* C30: apply_framework_defaults changes entrypoint, exposed_ports and
\* labels["framework"] only when the value is unset: a value the user has set
\* for any of the three stays as it is, and no other field and no other label
\* changes.
C30_DefaultsOnlyWhenUnset ==
    (lastCall.op = "returned" /\ lastCall.fn = "apply_framework_defaults") =>
        LET old == lastCall.before
            new == lastCall.config
        IN  /\ old.entrypoint # <<>> => new.entrypoint = old.entrypoint
            /\ old.exposed_ports # <<>> => new.exposed_ports = old.exposed_ports
            /\ "framework" \in DictKeys(old.labels) =>
                   DictGet(new.labels, "framework", <<>>) = DictGet(old.labels, "framework", <<>>)
            /\ DictKeys(new.labels) \subseteq DictKeys(old.labels) \cup {"framework"}
            /\ \A k \in DictKeys(old.labels) \ {"framework"} :
                   DictGet(new.labels, k, <<>>) = DictGet(old.labels, k, <<>>)
            /\ new.env = old.env /\ new.working_dir = old.working_dir
            /\ new.user = old.user /\ new.cmd = old.cmd

-----------------------------------------------------------------------------
(* Properties of the registry writes *)

\* the PUT of upload_blob_monolithic or of push_manifest has been answered
\* and the call returns or raises
WriteReturns(phase) ==
    /\ pc.op = "push" /\ pc.phase = phase /\ pc.req.phase = "returned"
    /\ vars' # vars

\* the exception of a refused write names the status and the body
CarriesAnswer(error) ==
    \E what \in {"Blob upload failed", "Manifest push failed"} :
        error = FailureMessage(what, pc.req.status, pc.req.body)

RefusedWith(error) == pc' = Idle /\ outcome'.result = "error" /\ error

\* C27: a registry write succeeds only on a status of its accepted set and
\* ends in an error that carries the status code and the response body on
\* any other status: the blob upload PUT accepts exactly 201 and 202, the
\* manifest PUT exactly 200 and 201.
C27_WriteAcceptedSets ==
    [][/\ WriteReturns("put") =>
            IF pc.req.status \in {201, 202}
            THEN pc'.op = "push" /\ outcome' = outcome
            ELSE RefusedWith(Decodes(pc.req.body) /\ CarriesAnswer(outcome'.error))
       /\ WriteReturns("manifest") =>
            IF pc.req.status \in {200, 201}
            THEN pc' = Idle /\ outcome'.result = "ok"
            ELSE RefusedWith(Decodes(pc.req.body) /\ CarriesAnswer(outcome'.error))]_vars

-----------------------------------------------------------------------------
(* Properties of a build without a base image *)

\* C28: build() with no base_image configured sends no registry request and
\* completes: the manifest written lists the layers built locally and only
\* them, at least one, and manifest_digest, config_digest and layers are set
\* on the builder.
C28_ScratchBuildCompletes ==
    (~config.dry_run /\ ~config.base_image /\ outcome.op = "build" /\ pc = Idle) =>
        /\ wire = <<>>
        /\ outcome.result = "ok"
        /\ inst.has_manifest_digest
        /\ Exists(out.blobs, inst.manifest_digest)
        /\ Exists(out.blobs, inst.config_digest)
        /\ ReadBytes(out.blobs, inst.manifest_digest).layers = inst.layers
        /\ Len(inst.layers) >= 1
        /\ \A j \in DOMAIN inst.layers : inst.layers[j].mediaType = "tar"

-----------------------------------------------------------------------------
(* Properties of the platform setting *)

\* C21: the build resolves the target platform from the configured string
\* and refuses every string that is not "<os>/<arch>" with two segments that
\* are not empty: the build ends in a configuration error before anything
\* is pulled or written.  "linux/arm64" and the default linux/amd64 are not
\* refused.
C21_PlatformValidated ==
    /\ PlatformRefused =>
          /\ pc.op # "build"
          /\ out = NoOutput
          /\ outcome.op = "build" =>
                (outcome.result = "error" /\ outcome.error = "ConfigError")
    /\ ~PlatformRefused => outcome.error # "ConfigError"

-----------------------------------------------------------------------------
(* Properties of the builder's use of the cache *)

\* C26: a failure of the cache's files during a build (the index cannot
\* be read or written, a file cannot be examined, a blob cannot be copied
\* into or out of the cache) counts as a cache miss: the build creates the
\* application layer itself and never ends in the error the cache met.
C26_CacheFailureIsMiss ==
    ~(outcome.op = "build" /\ outcome.result = "error" /\ outcome.error = "OSError")

-----------------------------------------------------------------------------
(* Properties of build() run again on the same output directory *)

\* C29: running build() again is safe.  After a build that stopped
\* anywhere (a request that failed, an exception, the process stopped while
\* a blob file was written), a build on the same output directory ends as a
\* build into an empty directory does: every blob the layout refers to is
\* there, complete, under the digest of its bytes, and the build does not
\* fail on a file an earlier build left.
C29_ReinvocationSafe ==
    /\ BuildSucceeded =>
          \A d \in Referenced : Exists(out.blobs, d) /\ ReadBytes(out.blobs, d) = d.of
    /\ ~(outcome.op = "build" /\ outcome.error = "JSONDecodeError")

-----------------------------------------------------------------------------
(* Properties of a cache without a directory *)

\* C31: on a LayerCache made with cache_dir=None every operation
\* (get_layer, store_layer, clear, get_stats) does nothing and raises
\* nothing: get_layer misses, store_layer records nothing and writes no
\* file, after any sequence of such calls.
C31_DisabledCacheNoOp ==
    ~cache.enabled =>
        /\ cache = NewCache(FALSE, 0)
        /\ lastCall.op = "get" => ~lastCall.ret.hit
        /\ lastCall.op = "clear" => lastCall.raised = ""

-----------------------------------------------------------------------------
(* Properties of the token exchange *)

\* what a client that holds a credential is to send to the token service
HeldCredential(cl) ==
    IF cl.username /\ cl.password THEN "basic"
    ELSE IF cl.auth_token THEN "bearer_supplied"
    ELSE IF cl.password THEN "bearer_password"
    ELSE "none"

\* C32: the request to the token service after a 401 carries the
\* credential the client holds: Basic with username and password when it
\* holds both, otherwise Bearer with the raw token when it holds a
\* pre-supplied token or a password alone; it is anonymous only when the
\* client holds no credential.
C32_TokenRequestCarriesCredential ==
    \A i \in DOMAIN wire :
        wire[i].kind = "token" => wire[i].auth = HeldCredential(client)

\* C33: the re-authentication after a 401 covers the blob downloads too:
\* a blob GET answered 401 with a Bearer challenge, sent by a client
\* without a cached bearer token, is followed by a token exchange (and then
\* by one retry of the GET), as for every other request.
C33_BlobGetReauth ==
    (wire # <<>> /\ wire[Len(wire)].kind = "blob" /\ wire[Len(wire)].status = 401
                /\ ~wire[Len(wire)].cached)
        => (pc.op = "build" /\ pc.req.phase = "exchange")

-----------------------------------------------------------------------------
(* Properties of the upload initiation *)

UploadReturned == lastCall.op = "returned" /\ lastCall.fn = "upload_blob_monolithic"

\* the Location header of the answer, under either spelling
GivenLocation ==
    IF "Location" \in DOMAIN lastCall.headers /\ lastCall.headers["Location"] # <<>>
    THEN lastCall.headers["Location"]
    ELSE IF "location" \in DOMAIN lastCall.headers THEN lastCall.headers["location"]
    ELSE <<>>

\* the host the client talks to
RegistryHost ==
    LET r == IF lastCall.registry[Len(lastCall.registry)] = "/"
             THEN SubSeq(lastCall.registry, 1, Len(lastCall.registry) - 1)
             ELSE lastCall.registry
    IN  IF r = <<"docker", ".", "io">> THEN <<"registry-1", ".", "docker", ".", "io">> ELSE r

\* C34: initiate_blob_upload ends in an error and no upload PUT is sent
\* when the status of the POST is not 200 or 202 or the answer has no
\* Location; a relative Location becomes https://<registry host><location>,
\* docker.io being registry-1.docker.io, and the PUT goes to that location
\* with the digest parameter appended.
C34_UploadInitiation ==
    UploadReturned =>
        IF lastCall.status \notin {200, 202} \/ GivenLocation = <<>>
        THEN lastCall.ret.raised # "" /\ lastCall.ret.puts = <<>>
        ELSE /\ lastCall.ret.raised = ""
             /\ lastCall.ret.puts =
                   << (IF GivenLocation[1] = "/"
                       THEN <<"https://">> \o RegistryHost \o GivenLocation
                       ELSE GivenLocation) \o <<"&digest=", lastCall.digest>> >>

C34_Witness ==
    /\ UploadReturned
    /\ lastCall.registry = <<"docker", ".", "io">>
    /\ lastCall.status = 202
    /\ GivenLocation # <<>> /\ GivenLocation[1] = "/"
    /\ lastCall.ret.puts # <<>>

-----------------------------------------------------------------------------
(* Properties of a lookup that hits, and of one that finds nothing *)

\* C35: a get_layer hit changes the last_used of the entry it hit and
\* nothing else: digest, size, created and source_files of that entry,
\* every other entry and every blob file are as before, and last_used does
\* not go back; a get_layer of a fingerprint the index does not hold
\* changes neither the index nor a file.
C35_HitTouchesOnly ==
    [][GetLayerStep =>
          LET key == compute_files_digest(lastCall'.files) IN
          /\ lastCall'.ret.hit =>
                /\ Len(cache'.index) = Len(cache.index)
                /\ \A i \in DOMAIN cache.index :
                      IF cache.index[i].key = key
                      THEN /\ cache'.index[i] =
                                [cache.index[i] EXCEPT !.last_used = cache'.index[i].last_used]
                           /\ cache'.index[i].last_used >= cache.index[i].last_used
                      ELSE cache'.index[i] = cache.index[i]
                /\ cache'.blobs = cache.blobs
          /\ key \notin Keys(cache.index) =>
                /\ ~lastCall'.ret.hit
                /\ cache'.index = cache.index
                /\ cache'.blobs = cache.blobs
                /\ cache'.saved = cache.saved
                /\ cache'.index_file = cache.index_file]_vars

\* a hit moved the last_used of one entry of an index of two, and the
\* other entry was stored later
C35_Witness ==
    /\ lastCall.op = "get"
    /\ lastCall.ret.hit
    /\ Len(cache.index) = 2
    /\ cache.index[1].key = compute_files_digest(lastCall.files)
    /\ cache.index[1].last_used > cache.index[1].created
    /\ cache.index[2].created > cache.index[1].created

-----------------------------------------------------------------------------
(* Properties of the index on disk *)

\* C36: after any sequence of store_layer, get_layer and clear calls on one
\* handle the index on disk is the index in memory, so a LayerCache opened
\* anew on the directory answers every file list as the handle would: hit
\* or miss, and the same digest.
C36_DiskIndexIsMemoryIndex ==
    /\ load_index(cache) = cache.index
    /\ cache.enabled =>
          \A files \in FileLists :
              get_layer(Reopened(cache), files, now).ret = get_layer(cache, files, now).ret

\* a store has evicted an entry from an index of several, and one is left
C36_Witness ==
    /\ lastCall.op = "store"
    /\ Len(lastCall.stored) >= 2
    /\ Len(cache.index) < Len(lastCall.stored)
    /\ cache.index # <<>>
    /\ cache.index_file

\* C37: after any sequence of store_layer and get_layer calls every entry
\* of the index refers to a blob file that is on disk; evicting an entry
\* does not remove a blob that an entry left in the index (another
\* fingerprint with the same layer digest) refers to.
C37_EntriesHaveBlobs ==
    \A i \in DOMAIN cache.index : Exists(cache.blobs, cache.index[i].digest)

-----------------------------------------------------------------------------
(* Properties of builds that share a cache *)

\* C38: the cache does not show in the result.  In a sequence of builds on
\* one cache directory, where a file whose contents change changes its size
\* or its mtime in whole seconds, the application layer of every build is
\* the one the build writes with use_cache off, also when workdir or the
\* reproducible flag is not the same in all builds.
C38_CacheTransparent ==
    (lastCall.op = "returned" /\ lastCall.fn = "create_app_layer") =>
        lastCall.data = AppLayerData(lastCall.second.files, lastCall.second.reproducible)

-----------------------------------------------------------------------------
(* Properties of build_config_json and its argument *)

\* C39: build_config_json leaves the base_config it is given as it was: the
\* object and its 'config' object (Env, WorkingDir, Entrypoint, Cmd, User,
\* Labels, ExposedPorts) are after the call what they were before it, so
\* that a second merge of the same base config starts from the same values.
C39_BaseConfigUnchanged ==
    (lastCall.op = "returned" /\ lastCall.fn = "build_config_json")
        => lastCall.base_after = lastCall.base_config

-----------------------------------------------------------------------------
(* Properties of builders that share a cache directory *)

\* C40: with two builders on one cache directory, a hit of get_layer never
\* ends as a failure of the build: whatever the other builder stores and
\* evicts between the hit and the copy, the builder either finds the blob or
\* goes on as after a miss.
C40_HitNeverFails ==
    \A b \in Builders : pc[b].at # "failed"

====
